---------------------------- MODULE Spec2Model ----------------------------
(***************************************************************************)
(* A model of github-username-migrator: the remote-config parser and       *)
(* rewriter, the GitHub URL matcher, the repository scanner, the migration *)
(* executor with its audit logger, and the phase machine of the TUI app.   *)
(*                                                                         *)
(* Strings are sequences of one-character strings, so that splitting,      *)
(* trimming and the regular expressions of the source are computed here    *)
(* the way the source computes them.  JavaScript's null is the empty       *)
(* sequence wherever the source's value can never be the empty string.     *)
(***************************************************************************)
EXTENDS Integers, Sequences, FiniteSets, TLC

VARIABLES
    \* --- parse / rewrite of one config text (git-remote.ts)
    cfgRemotes,   \* the remotes the config text is rendered from
    cfgText,      \* the config text before the rewrite
    cfgName,      \* remoteName argument of updateRemoteInConfig
    cfgUrl,       \* newUrl argument of updateRemoteInConfig
    cfgOut,       \* the text updateRemoteInConfig returned
    cfgParsed,    \* what parseGitConfig returned for a text read from disk
    cfgPc,        \* "idle" | "start" | "rendered" | "updated" | "loaded" | "parsed" | "rewritten"
    \* --- owner replacement on one URL (git-remote.ts)
    urlIn,        \* the URL given to replaceGitHubUsername
    urlOld,       \* oldUsername argument
    urlNew,       \* newUsername argument
    urlOut,       \* replaceGitHubUsername(urlIn, urlOld, urlNew)
    urlBack,      \* replaceGitHubUsername(urlOut, urlNew, urlOld)
    urlPc,        \* "idle" | "start" | "replaced" | "restored"
    \* --- the file system a scan walks
    fsName,       \* name of every directory entry below the scan root
    fsGit,        \* whether a directory directly contains a .git directory
    fsUnlistable, \* directories whose readdir fails
    fsUnreadable, \* repositories whose .git/config cannot be read
    fsRewritten,  \* repositories whose .git/config another process rewrote
    \* --- scanForRepositories (scanner.ts)
    scanOld,      \* oldUsername argument
    scanNew,      \* newUsername argument
    scanMaxDepth, \* options.maxDepth
    scanExclude,  \* options.excludePatterns
    scanAborted,  \* options.signal.aborted
    scanAbortedAtCall,  \* history: signal.aborted when the scan was called
    scanOnProgress,     \* whether options.onProgress is given
    lastProgressUpdate, \* lastProgressUpdate of scanForRepositories
    progressReports,    \* the reports given to onProgress, in order, each with
                        \* the time of its call (history)
    directRead,   \* the outcome of a call of getRemoteUrls made by the caller
    genStack,     \* the suspended scanDirectory generators, innermost last
    scanEvent,    \* the event the generator yielded and the loop has not taken
    scanPc,       \* "idle" | "iterating" | "remotes" | "matching" | "done"
    scanRepo,     \* the repository whose remotes are being read
    scanRemotes,  \* what getRemoteUrls returned for scanRepo
    directoriesScanned,
    skippedDirectories,
    repositoriesFound,
    matchedRepositories,
    errors,
    scanListed,   \* history: the directories readdir was called on
    scanFound,    \* history: the repositories counted, in order
    \* --- migrate (migrator.ts) and its MigrationLogger (logger.ts)
    migOptions,   \* the first argument migrate was called with
    migFs,        \* path -> text of .git/config, or NoFile when the path is gone
    migReadOnly,  \* paths whose config cannot be written
    migAborted,   \* options.signal.aborted
    migAbortedAtCall, \* history: the signal was set when migrate was called
    migPc,        \* "idle" | "init" | "repo" | "set" | "logSuccess" | "logFailure"
                  \* | "finalize" | "returned" | "rejected"
    migRepo,      \* index of the repository of the loop of migrate
    migRemote,    \* index of the matched remote of the loop of migrateRepository
    repoResults,  \* results of migrateRepository
    results,      \* results of migrate
    completed,
    errorMessage, \* the message caught in migrateRepository
    logInitialized,
    logEntries,   \* log.entries
    logSummary,   \* log.summary
    logFile,      \* the blocks written to the log file
    migProgress,  \* the reports given to onProgress, in order
    migAttempted, \* history: <<path, remote name>> of every setRemoteUrl call
    logFaults,    \* history: number of log writes that failed
    \* --- the App component and the components it renders
    appDryRun,    \* the dryRun prop of App
    phase,        \* "idle" or the AppPhase
    inputStep,    \* UsernameInput: "old" | "new"
    typedOld,     \* UsernameInput: oldUsername
    typedNew,     \* UsernameInput: newUsername
    appOldUsername,
    appNewUsername,
    matchedRepos,
    selectedAction,    \* RepoList: "confirm" | "cancel"
    scrollOffset,      \* RepoList
    migrationResults,  \* migrationProgress.results, what ResultSummary displays
    appExited,    \* exit() was called
    appConfirmed, \* history: onConfirm was called in the review phase
    appCancelled, \* history: onCancel was called in the review phase
    appMigrateCalls,   \* history: number of calls of migrate
    \* --- dryRun (migrator.ts)
    dryRepositories,   \* the repositories argument
    dryFs,        \* the paths stat can reach, with their configs
    dryRepo,      \* index of the repository of the loop of dryRun
    dryIssues,    \* issues
    dryResult,    \* what dryRun returned
    dryPc,
    \* --- the log files of MigrationLogger objects (logger.ts)
    nowMs,        \* the clock, in milliseconds
    loggers,      \* the MigrationLogger objects constructed, in order
    logDir,       \* the files of the logs directory
    \* --- the matching of one repository found by a scan (scanner.ts)
    matchRepo,    \* event.path
    matchOld,     \* oldUsername
    matchNew,     \* newUsername
    matchCustom,  \* options.customPattern
    matchOut,     \* what was pushed to matchedRepositories
    matchPc

cfgVars == <<cfgRemotes, cfgText, cfgName, cfgUrl, cfgOut, cfgParsed, cfgPc>>
urlVars == <<urlIn, urlOld, urlNew, urlOut, urlBack, urlPc>>
fsVars == <<fsName, fsGit, fsUnlistable, fsUnreadable, fsRewritten>>
scanArgs == <<scanOld, scanNew, scanMaxDepth, scanExclude, scanAbortedAtCall,
              scanOnProgress>>
progVars == <<lastProgressUpdate, progressReports>>
scanCounts == <<directoriesScanned, skippedDirectories, repositoriesFound,
                matchedRepositories, errors>>
scanVars == <<fsVars, scanArgs, scanAborted, genStack, scanEvent, scanPc, scanRepo,
              scanRemotes, scanCounts, scanListed, scanFound, progVars, directRead>>
migArgs == <<migOptions, migReadOnly, migAbortedAtCall>>
logVars == <<logInitialized, logEntries, logSummary, logFile, logFaults>>
migVars == <<migArgs, migFs, migAborted, migPc, migRepo, migRemote, repoResults,
             results, completed, errorMessage, logVars, migProgress, migAttempted>>
inputVars == <<inputStep, typedOld, typedNew>>
listVars == <<selectedAction, scrollOffset>>
appHistory == <<appConfirmed, appCancelled, appMigrateCalls>>
appVars == <<appDryRun, phase, inputVars, appOldUsername, appNewUsername,
             matchedRepos, listVars, migrationResults, appExited, appHistory>>
dryVars == <<dryRepositories, dryFs, dryRepo, dryIssues, dryResult, dryPc>>
lgVars == <<nowMs, loggers, logDir>>
matchVars == <<matchRepo, matchOld, matchNew, matchCustom, matchOut, matchPc>>
vars == <<cfgVars, urlVars, scanVars, migVars, appVars, dryVars, lgVars, matchVars>>

\* What the actions of one specification leave alone.
notCfgVars == <<urlVars, scanVars, migVars, appVars, dryVars, lgVars, matchVars>>
notUrlVars == <<cfgVars, scanVars, migVars, appVars, dryVars, lgVars, matchVars>>
notScanVars == <<cfgVars, urlVars, migVars, appVars, dryVars, lgVars, matchVars>>
notMigVars == <<cfgVars, urlVars, scanVars, appVars, dryVars, lgVars, matchVars>>
notAppVars == <<cfgVars, urlVars, scanVars, dryVars, lgVars, matchVars>>
notDryVars == <<cfgVars, urlVars, scanVars, migVars, appVars, lgVars, matchVars>>
notMatchVars == <<cfgVars, urlVars, scanVars, migVars, appVars, dryVars, lgVars>>
notLgVars == <<cfgVars, urlVars, scanVars, migVars, appVars, dryVars, matchVars>>

-----------------------------------------------------------------------------
(* String primitives of the JavaScript runtime the source relies on.       *)

\* The value the source writes as null (or undefined) for a string.
Null == <<>>

\* \s of a JavaScript regular expression, and what String.trim strips.
IsWhitespace(c) == c \in {" ", "\t", "\n", "\r"}

\* "." of a JavaScript regular expression: any character but a line end.
IsDotChar(c) == c \notin {"\n", "\r"}

startsWith(s, p) ==
    /\ Len(p) <= Len(s)
    /\ SubSeq(s, 1, Len(p)) = p

endsWith(s, p) ==
    /\ Len(p) <= Len(s)
    /\ SubSeq(s, Len(s) - Len(p) + 1, Len(s)) = p

\* The rest of s after its first n characters.
Drop(s, n) == SubSeq(s, n + 1, Len(s))

\* Number of leading whitespace characters of s.
LeadingWs(s) ==
    LET idx == {i \in 1..Len(s) : ~IsWhitespace(s[i])}
    IN  IF idx = {} THEN Len(s)
        ELSE (CHOOSE i \in idx : \A j \in idx : i <= j) - 1

\* Number of trailing whitespace characters of s.
TrailingWs(s) ==
    LET idx == {i \in 1..Len(s) : ~IsWhitespace(s[i])}
    IN  IF idx = {} THEN Len(s)
        ELSE Len(s) - (CHOOSE i \in idx : \A j \in idx : i >= j)

\* String.prototype.trim
trim(s) ==
    IF LeadingWs(s) = Len(s) THEN <<>>
    ELSE SubSeq(s, LeadingWs(s) + 1, Len(s) - TrailingWs(s))

\* String.prototype.toLowerCase on the letters the model uses.
toLowerCase(s) ==
    LET lower(c) ==
            CASE c = "A" -> "a" [] c = "B" -> "b" [] c = "C" -> "c"
              [] c = "D" -> "d" [] c = "E" -> "e" [] c = "G" -> "g"
              [] c = "I" -> "i" [] c = "L" -> "l" [] c = "M" -> "m"
              [] c = "O" -> "o" [] c = "P" -> "p" [] c = "T" -> "t"
              [] OTHER -> c
    IN  [i \in 1..Len(s) |-> lower(s[i])]

\* String.prototype.includes
includes(s, p) ==
    \E i \in 0..(Len(s) - Len(p)) : SubSeq(s, i + 1, i + Len(p)) = p

\* String.prototype.split on a one-character separator.
RECURSIVE split(_, _)
split(s, sep) ==
    LET idx == {i \in 1..Len(s) : s[i] = sep}
    IN  IF idx = {} THEN <<s>>
        ELSE LET i == CHOOSE k \in idx : \A j \in idx : k <= j
             IN  <<SubSeq(s, 1, i - 1)>> \o split(Drop(s, i), sep)

\* Array.prototype.join with a one-character separator.
RECURSIVE join(_, _)
join(lines, sep) ==
    IF Len(lines) = 0 THEN <<>>
    ELSE IF Len(lines) = 1 THEN lines[1]
    ELSE lines[1] \o <<sep>> \o join(Tail(lines), sep)

-----------------------------------------------------------------------------
(* git-remote.ts: parsing and rewriting the text of .git/config.           *)

\* /^\[remote\s+"([^"]+)"\]$/ on a trimmed line: the captured name, or Null
\* when the line is no remote section header.
remoteMatch(trimmedLine) ==
    LET pre   == <<"[","r","e","m","o","t","e">>
        rest  == Drop(trimmedLine, Len(pre))
        ws    == LeadingWs(rest)
        body  == Drop(rest, ws)
        name  == SubSeq(body, 2, Len(body) - 2)
    IN  IF /\ startsWith(trimmedLine, pre)
           /\ ws >= 1
           /\ Len(body) >= 4
           /\ body[1] = "\""
           /\ endsWith(body, <<"\"","]">>)
           /\ \A i \in 1..Len(name) : name[i] # "\""
        THEN name
        ELSE Null

\* The tail /\s*=\s*(.+)$/ shared by both url expressions, applied to what
\* follows the word "url": the captured value, or Null when there is no match.
\* \s* is greedy and gives characters back to (.+) only when it must.
urlValue(afterUrl) ==
    LET ws1  == LeadingWs(afterUrl)
        r    == Drop(afterUrl, ws1 + 1)
        ks   == {k \in 0..LeadingWs(r) :
                    /\ k < Len(r)
                    /\ \A i \in (k + 1)..Len(r) : IsDotChar(r[i])}
        kmax == CHOOSE k \in ks : \A j \in ks : k >= j
    IN  IF /\ ws1 < Len(afterUrl)
           /\ afterUrl[ws1 + 1] = "="
           /\ ks # {}
        THEN Drop(r, kmax)
        ELSE Null

\* /^url\s*=\s*(.+)$/ on a trimmed line (parseGitConfig).
urlMatch(trimmedLine) ==
    IF startsWith(trimmedLine, <<"u","r","l">>)
    THEN urlValue(Drop(trimmedLine, 3))
    ELSE Null

\* /^(\s*)url\s*=\s*(.+)$/ on an untrimmed line (updateRemoteInConfig):
\* whether it matches, and the captured indent.
urlLineMatch(line) ==
    LET indent == SubSeq(line, 1, LeadingWs(line))
        rest   == Drop(line, LeadingWs(line))
    IN  [matched |-> /\ startsWith(rest, <<"u","r","l">>)
                     /\ urlValue(Drop(rest, 3)) # Null,
         indent  |-> indent]

\* Mutant of closesSection: a header that names no remote closes nothing.
closesSection_never(trimmedLine) == FALSE

\* parseGitConfig's test for a section header that is no remote header.
closesSection(trimmedLine) == startsWith(trimmedLine, <<"[">>)

\* The loop of parseGitConfig over lines[i..], with currentRemote = cur.
RECURSIVE parseLines(_, _, _)
parseLines(lines, i, cur) ==
    IF i > Len(lines) THEN <<>>
    ELSE LET trimmedLine == trim(lines[i])
         IN  IF remoteMatch(trimmedLine) # Null
               THEN parseLines(lines, i + 1, remoteMatch(trimmedLine))
             ELSE IF closesSection(trimmedLine)
               THEN parseLines(lines, i + 1, Null)
             ELSE IF cur # Null /\ urlMatch(trimmedLine) # Null
               THEN <<[name |-> cur, url |-> trim(urlMatch(trimmedLine))]>>
                        \o parseLines(lines, i + 1, cur)
             ELSE parseLines(lines, i + 1, cur)

parseGitConfig(configContent) == parseLines(split(configContent, "\n"), 1, Null)

\* Mutant of isTargetSection: every remote section counts as the target.
isTargetSection_any(headerName, remoteName) == TRUE

\* updateRemoteInConfig's test of a section header against remoteName.
isTargetSection(headerName, remoteName) == headerName = remoteName

\* The loop of updateRemoteInConfig over lines[i..]: the result lines.
RECURSIVE updateLines(_, _, _, _, _, _)
updateLines(lines, i, remoteName, newUrl, inTargetRemote, urlUpdated) ==
    IF i > Len(lines) THEN <<>>
    ELSE LET line        == lines[i]
             trimmedLine == trim(line)
             m           == urlLineMatch(line)
         IN  IF remoteMatch(trimmedLine) # Null
               THEN <<line>> \o updateLines(lines, i + 1, remoteName, newUrl,
                                    isTargetSection(remoteMatch(trimmedLine), remoteName),
                                    urlUpdated)
             ELSE IF startsWith(trimmedLine, <<"[">>)
               THEN <<line>> \o updateLines(lines, i + 1, remoteName, newUrl,
                                    FALSE, urlUpdated)
             ELSE IF inTargetRemote /\ ~urlUpdated /\ m.matched
               THEN <<m.indent \o <<"u","r","l"," ","="," ">> \o newUrl>>
                        \o updateLines(lines, i + 1, remoteName, newUrl,
                                    inTargetRemote, TRUE)
             ELSE <<line>> \o updateLines(lines, i + 1, remoteName, newUrl,
                                    inTargetRemote, urlUpdated)

updateRemoteInConfig(configContent, remoteName, newUrl) ==
    join(updateLines(split(configContent, "\n"), 1, remoteName, newUrl, FALSE, FALSE),
         "\n")

\* fixtures.ts: the config text the tests render from a list of remotes.
RECURSIVE remoteSections(_)
remoteSections(remotes) ==
    IF remotes = <<>> THEN <<>>
    ELSE <<<<"[","r","e","m","o","t","e"," ","\"">> \o remotes[1].name \o <<"\"","]">>,
           <<"\t","u","r","l"," ","="," ">> \o remotes[1].url,
           <<"\t","f","e","t","c","h"," ","="," ","+","r","e","f","s","/","h","e","a",
             "d","s","/","*",":","r","e","f","s","/","r","e","m","o","t","e","s","/">>
               \o remotes[1].name \o <<"/","*">>>>
         \o remoteSections(Tail(remotes))

createGitConfig(remotes) ==
    join(<<<<"[","c","o","r","e","]">>,
           <<"\t","r","e","p","o","s","i","t","o","r","y","f","o","r","m","a","t",
             "v","e","r","s","i","o","n"," ","="," ","0">>,
           <<"\t","f","i","l","e","m","o","d","e"," ","="," ","t","r","u","e">>,
           <<"\t","b","a","r","e"," ","="," ","f","a","l","s","e">>>>
         \o remoteSections(remotes), "\n") \o <<"\n">>

-----------------------------------------------------------------------------
(* git-remote.ts: recognizing GitHub URLs and replacing the owner.         *)

GITHUB_SSH_PREFIX == <<"g","i","t","@","g","i","t","h","u","b",".","c","o","m",":">>
GITHUB_HTTPS_PREFIX ==
    <<"h","t","t","p","s",":","/","/","g","i","t","h","u","b",".","c","o","m","/">>

\* /^<prefix>([^/]+)\/(.+?)(?:\.git)?$/ : whether url matches and groups 1, 2.
\* (.+?) is lazy, so a trailing ".git" is left out of group 2 whenever group 2
\* keeps at least one character.
githubExec(url, prefix) ==
    LET body    == Drop(url, Len(prefix))
        slashes == {i \in 1..Len(body) : body[i] = "/"}
        slash   == CHOOSE i \in slashes : \A j \in slashes : i <= j
        rest    == Drop(body, slash)
        matched == /\ startsWith(url, prefix)
                   /\ slashes # {}
                   /\ slash >= 2
                   /\ Len(rest) >= 1
                   /\ \A i \in 1..Len(rest) : IsDotChar(rest[i])
    IN  IF matched
        THEN [matched |-> TRUE,
              owner   |-> SubSeq(body, 1, slash - 1),
              repo    |-> IF endsWith(rest, <<".","g","i","t">>) /\ Len(rest) > 4
                          THEN SubSeq(rest, 1, Len(rest) - 4)
                          ELSE rest]
        ELSE [matched |-> FALSE, owner |-> Null, repo |-> Null]

isGitHubUrl(url) ==
    githubExec(url, GITHUB_SSH_PREFIX).matched \/ githubExec(url, GITHUB_HTTPS_PREFIX).matched

extractGitHubUsername(url) ==
    IF githubExec(url, GITHUB_SSH_PREFIX).matched
      THEN githubExec(url, GITHUB_SSH_PREFIX).owner
    ELSE IF githubExec(url, GITHUB_HTTPS_PREFIX).matched
      THEN githubExec(url, GITHUB_HTTPS_PREFIX).owner
    ELSE Null

\* The URL replaceGitHubUsername builds once a shape matched with the old owner.
rebuildUrl(prefix, newUsername, repo, url) ==
    prefix \o newUsername \o <<"/">> \o repo
        \o (IF endsWith(url, <<".","g","i","t">>) THEN <<".","g","i","t">> ELSE <<>>)

\* Mutant of replaceGitHubUsername: the owner found is not compared.
replaceGitHubUsername_anyOwner(url, oldUsername, newUsername) ==
    LET sshMatch   == githubExec(url, GITHUB_SSH_PREFIX)
        httpsMatch == githubExec(url, GITHUB_HTTPS_PREFIX)
    IN  IF sshMatch.matched
          THEN rebuildUrl(GITHUB_SSH_PREFIX, newUsername, sshMatch.repo, url)
        ELSE IF httpsMatch.matched
          THEN rebuildUrl(GITHUB_HTTPS_PREFIX, newUsername, httpsMatch.repo, url)
        ELSE url

replaceGitHubUsername(url, oldUsername, newUsername) ==
    LET sshMatch   == githubExec(url, GITHUB_SSH_PREFIX)
        httpsMatch == githubExec(url, GITHUB_HTTPS_PREFIX)
    IN  IF sshMatch.matched /\ toLowerCase(sshMatch.owner) = toLowerCase(oldUsername)
          THEN rebuildUrl(GITHUB_SSH_PREFIX, newUsername, sshMatch.repo, url)
        ELSE IF httpsMatch.matched
                  /\ toLowerCase(httpsMatch.owner) = toLowerCase(oldUsername)
          THEN rebuildUrl(GITHUB_HTTPS_PREFIX, newUsername, httpsMatch.repo, url)
        ELSE url

\* Mutant of urlContainsUsername: the owner is compared case-sensitively.
urlContainsUsername_exact(url, username) ==
    /\ extractGitHubUsername(url) # Null
    /\ extractGitHubUsername(url) = username

urlContainsUsername(url, username) ==
    /\ extractGitHubUsername(url) # Null
    /\ toLowerCase(extractGitHubUsername(url)) = toLowerCase(username)

-----------------------------------------------------------------------------
(* Inputs of the model.                                                    *)

\* Longest list of remotes a rendered config holds.
MaxRemotes == 2

RemoteNames == {<<"o","r","i","g","i","n">>, <<"u","p">>, <<"u","r","l">>}

\* URLs found in configs: an SSH URL, an HTTPS URL, and a local path whose
\* text looks like config syntax.
ConfigUrls ==
    {<<"g","i","t","@","g","i","t","h","u","b",".","c","o","m",":",
       "a","l","i","c","e","/","r",".","g","i","t">>,
     <<"h","t","t","p","s",":","/","/","g","i","t","h","u","b",".","c","o","m","/",
       "A","l","i","c","e","/","r">>,
     <<"/","s","r","v","/","[","x","]"," ","u","r","l"," ","="," ","y">>}

\* URLs a rewrite is asked to store.
NewUrls ==
    {<<"g","i","t","@","g","i","t","h","u","b",".","c","o","m",":",
       "b","o","b","/","r",".","g","i","t">>,
     <<"h","t","t","p","s",":","/","/","g","i","t","h","u","b",".","c","o","m","/",
       "b","o","b","/","r">>,
     <<"/","t","m","p","/","u","r","l"," ","="," ","[","z","]">>}

\* Pieces of config files found on disk, each a list of lines: a remote
\* section, one with two url lines, one indented with spaces and without
\* spaces around "=", a section that is no remote, a remote with a pushurl
\* and no url, a header and a url line with blanks around them, a branch
\* section, a url line without a header of its own, a remote section with
\* CRLF line ends, and one whose first url line has a blank for its value.
ConfigPieces ==
    {<<<<"[","r","e","m","o","t","e"," ","\"","o","r","i","g","i","n","\"","]">>,
       <<"\t","u","r","l"," ","="," ","g","i","t","@","g","i","t","h","u","b",".","c","o","m",":","a","l","i","c","e","/","r",".","g","i","t">>,
       <<"\t","f","e","t","c","h"," ","="," ","+","r","e","f","s","/","h","e","a","d","s","/","*",":","r","e","f","s","/","r","e","m","o","t","e","s","/","o","r","i","g","i","n","/","*">>>>,
     <<<<"[","r","e","m","o","t","e"," ","\"","o","r","i","g","i","n","\"","]">>,
       <<"\t","u","r","l"," ","="," ","h","t","t","p","s",":","/","/","g","i","t","h","u","b",".","c","o","m","/","a","l","i","c","e","/","r">>,
       <<"\t","u","r","l"," ","="," ","g","i","t","@","g","i","t","h","u","b",".","c","o","m",":","b","o","b","/","r",".","g","i","t">>>>,
     <<<<"[","r","e","m","o","t","e"," ","\"","u","p","\"","]">>,
       <<" "," "," "," ","u","r","l","=","h","t","t","p","s",":","/","/","g","i","t","h","u","b",".","c","o","m","/","A","l","i","c","e","/","r">>>>,
     <<<<"[","c","o","r","e","]">>,
       <<"\t","u","r","l"," ","="," ","/","s","r","v","/","x">>>>,
     <<<<"[","r","e","m","o","t","e"," ","\"","u","p","\"","]">>,
       <<"\t","p","u","s","h","u","r","l"," ","="," ","g","i","t","@","g","i","t","h","u","b",".","c","o","m",":","a","l","i","c","e","/","p",".","g","i","t">>>>,
     <<<<" "," ","[","r","e","m","o","t","e"," ","\"","o","r","i","g","i","n","\"","]"," "," ">>,
       <<"u","r","l","\t","=","\t","g","i","t","@","g","i","t","h","u","b",".","c","o","m",":","a","l","i","c","e","/","r",".","g","i","t"," "," ">>>>,
     <<<<"[","b","r","a","n","c","h"," ","\"","m","a","i","n","\"","]">>,
       <<"\t","r","e","m","o","t","e"," ","="," ","o","r","i","g","i","n">>>>,
     <<<<"\t","u","r","l"," ","="," ","/","t","m","p","/","z">>>>,
     <<<<"[","r","e","m","o","t","e"," ","\"","o","r","i","g","i","n","\"","]","\r">>,
       <<"\t","u","r","l"," ","="," ","g","i","t","@","g","i","t","h","u","b",".","c","o","m",":","a","l","i","c","e","/","r",".","g","i","t","\r">>>>,
     <<<<"[","r","e","m","o","t","e"," ","\"","u","p","\"","]">>,
       <<"\t","u","r","l"," ","="," ">>,
       <<"\t","u","r","l"," ","="," ","h","t","t","p","s",":","/","/","g","i","t","h","u","b",".","c","o","m","/","a","l","i","c","e","/","r">>>>}

\* Most pieces a config read from disk is made of.
MaxPieces == 2

\* The lines of a list of pieces.
RECURSIVE linesOf(_)
linesOf(pieces) == IF pieces = <<>> THEN <<>> ELSE pieces[1] \o linesOf(Tail(pieces))

\* The config texts read from disk.
RawConfigs ==
    {join(linesOf(l), "\n") : l \in UNION {[1..n -> ConfigPieces] : n \in 0..MaxPieces}}

\* Lists of at most MaxRemotes remotes with distinct names.
RemoteLists ==
    UNION {{l \in [1..n -> [name : RemoteNames, url : ConfigUrls]] :
                \A i, j \in 1..n : i # j => l[i].name # l[j].name} : n \in 0..MaxRemotes}

\* Owners (user names) and the text after "owner/" of the URLs tried.
Owners == {<<"a","l","i","c","e">>, <<"A","l","i","c","e">>, <<"b","o","b">>}
RepoParts ==
    {<<"r">>, <<"r",".","g","i","t">>, <<"a","/","b",".","g","i","t">>,
     <<"r",".","g","i","t",".","g","i","t">>, <<".","g","i","t">>, <<>>}
UrlPrefixes ==
    {GITHUB_SSH_PREFIX, GITHUB_HTTPS_PREFIX,
     <<"g","i","t","@","g","i","t","l","a","b",".","c","o","m",":">>,
     <<"h","t","t","p",":","/","/","g","i","t","h","u","b",".","c","o","m","/">>}
UrlInputs == {p \o o \o <<"/">> \o r : p \in UrlPrefixes, o \in Owners, r \in RepoParts}

-----------------------------------------------------------------------------
(* Specification SpecConfig: render a config, rewrite one remote, parse.   *)

CfgIdle ==
    /\ cfgRemotes = <<>> /\ cfgText = <<>> /\ cfgName = <<>>
    /\ cfgUrl = <<>> /\ cfgOut = <<>> /\ cfgParsed = <<>> /\ cfgPc = "idle"

UrlIdle ==
    /\ urlIn = <<>> /\ urlOld = <<>> /\ urlNew = <<>>
    /\ urlOut = <<>> /\ urlBack = <<>> /\ urlPc = "idle"

ScanIdle ==
    /\ fsName = <<>> /\ fsGit = <<>> /\ fsUnlistable = {} /\ fsUnreadable = {}
    /\ fsRewritten = {}
    /\ scanOld = <<>> /\ scanNew = <<>> /\ scanMaxDepth = 0 /\ scanExclude = <<>>
    /\ scanAborted = FALSE /\ scanAbortedAtCall = FALSE
    /\ scanOnProgress = FALSE /\ lastProgressUpdate = 0 /\ progressReports = <<>>
    /\ directRead = [kind |-> "none"]
    /\ genStack = <<>> /\ scanEvent = [type |-> "none"] /\ scanPc = "idle"
    /\ scanRepo = 0 /\ scanRemotes = <<>>
    /\ directoriesScanned = 0 /\ skippedDirectories = 0 /\ repositoriesFound = 0
    /\ matchedRepositories = <<>> /\ errors = <<>>
    /\ scanListed = {} /\ scanFound = <<>>

MigIdle ==
    /\ migOptions = [kind |-> "none"] /\ migFs = <<>> /\ migReadOnly = {}
    /\ migAborted = FALSE /\ migAbortedAtCall = FALSE
    /\ migPc = "idle" /\ migRepo = 0 /\ migRemote = 0
    /\ repoResults = <<>> /\ results = <<>> /\ completed = 0 /\ errorMessage = ""
    /\ logInitialized = FALSE /\ logEntries = <<>>
    /\ logSummary = [totalRepositories |-> 0, successfulMigrations |-> 0,
                     failedMigrations |-> 0]
    /\ logFile = <<>> /\ migProgress = <<>> /\ migAttempted = <<>> /\ logFaults = 0

AppIdle ==
    /\ appDryRun = TRUE /\ phase = "idle"
    /\ inputStep = "old" /\ typedOld = <<>> /\ typedNew = <<>>
    /\ appOldUsername = <<>> /\ appNewUsername = <<>> /\ matchedRepos = <<>>
    /\ selectedAction = "confirm" /\ scrollOffset = 0
    /\ migrationResults = <<>> /\ appExited = FALSE
    /\ appConfirmed = FALSE /\ appCancelled = FALSE /\ appMigrateCalls = 0

DryIdle ==
    /\ dryRepositories = <<>> /\ dryFs = <<>> /\ dryRepo = 0
    /\ dryIssues = <<>> /\ dryResult = [kind |-> "none"] /\ dryPc = "idle"

LgIdle == nowMs = 0 /\ loggers = <<>> /\ logDir = {}

MatchIdle ==
    /\ matchRepo = 0 /\ matchOld = <<>> /\ matchNew = <<>>
    /\ matchCustom = [kind |-> "none"] /\ matchOut = <<>> /\ matchPc = "idle"

InitConfig ==
    /\ cfgRemotes \in RemoteLists
    /\ cfgText = <<>> /\ cfgName = <<>> /\ cfgUrl = <<>> /\ cfgOut = <<>>
    /\ cfgParsed = <<>>
    /\ cfgPc = "start"
    /\ UrlIdle
    /\ ScanIdle
    /\ MigIdle
    /\ AppIdle
    /\ DryIdle
    /\ LgIdle
    /\ MatchIdle

\* The fixture writes the config of a repository with the given remotes.
RenderConfig ==
    /\ cfgPc = "start"
    /\ cfgText' = createGitConfig(cfgRemotes)
    /\ cfgPc' = "rendered"
    /\ UNCHANGED <<cfgRemotes, cfgName, cfgUrl, cfgOut, cfgParsed, notCfgVars>>

\* updateRemoteInConfig(cfgText, name, url) for a remote of the config.
UpdateConfig ==
    /\ cfgPc = "rendered"
    /\ \E i \in 1..Len(cfgRemotes), u \in NewUrls :
          /\ cfgName' = cfgRemotes[i].name
          /\ cfgUrl' = u
          /\ cfgOut' = updateRemoteInConfig(cfgText, cfgRemotes[i].name, u)
    /\ cfgPc' = "updated"
    /\ UNCHANGED <<cfgRemotes, cfgText, cfgParsed, notCfgVars>>

\* A config is read from disk instead of being rendered.
LoadConfig ==
    /\ cfgPc = "start"
    /\ cfgRemotes = <<>>
    /\ cfgText' \in RawConfigs
    /\ cfgPc' = "loaded"
    /\ UNCHANGED <<cfgRemotes, cfgName, cfgUrl, cfgOut, cfgParsed, notCfgVars>>

\* parseGitConfig(cfgText) for a config read from disk.
ParseConfig ==
    /\ cfgPc = "loaded"
    /\ cfgParsed' = parseGitConfig(cfgText)
    /\ cfgPc' = "parsed"
    /\ UNCHANGED <<cfgRemotes, cfgText, cfgName, cfgUrl, cfgOut, notCfgVars>>

\* updateRemoteInConfig(cfgText, name, url) for a config read from disk and
\* any remote name, one no section has included.
RewriteConfig ==
    /\ cfgPc = "loaded"
    /\ \E name \in RemoteNames, u \in NewUrls :
          /\ cfgName' = name
          /\ cfgUrl' = u
          /\ cfgOut' = updateRemoteInConfig(cfgText, name, u)
    /\ cfgPc' = "rewritten"
    /\ UNCHANGED <<cfgRemotes, cfgText, cfgParsed, notCfgVars>>

NextConfig ==
    \/ RenderConfig \/ UpdateConfig
    \/ LoadConfig \/ ParseConfig \/ RewriteConfig

SpecConfig == InitConfig /\ [][NextConfig]_vars

-----------------------------------------------------------------------------
(* Specification SpecUrl: replace the owner of a URL, then replace back.   *)

InitUrl ==
    /\ urlIn \in UrlInputs
    /\ urlOld \in Owners
    /\ urlNew \in Owners
    /\ urlOut = <<>> /\ urlBack = <<>>
    /\ urlPc = "start"
    /\ CfgIdle
    /\ ScanIdle
    /\ MigIdle
    /\ AppIdle
    /\ DryIdle
    /\ LgIdle
    /\ MatchIdle

ReplaceOwner ==
    /\ urlPc = "start"
    /\ urlOut' = replaceGitHubUsername(urlIn, urlOld, urlNew)
    /\ urlPc' = "replaced"
    /\ UNCHANGED <<urlIn, urlOld, urlNew, urlBack, notUrlVars>>

RestoreOwner ==
    /\ urlPc = "replaced"
    /\ urlBack' = replaceGitHubUsername(urlOut, urlNew, urlOld)
    /\ urlPc' = "restored"
    /\ UNCHANGED <<urlIn, urlOld, urlNew, urlOut, notUrlVars>>

NextUrl == ReplaceOwner \/ RestoreOwner

SpecUrl == InitUrl /\ [][NextUrl]_vars

-----------------------------------------------------------------------------
(* Claims about the config rewriter and the URL transformer.               *)

\* The list of remotes with the URL of every remote named name set to url.
WithUrl(remotes, name, url) ==
    [i \in 1..Len(remotes) |->
        IF remotes[i].name = name THEN [name |-> name, url |-> url] ELSE remotes[i]]

\* C1: for a config rendered from remotes with distinct names, parsing the
\* text rewritten for remote N and URL u gives the remotes parsed from the
\* original text, in the same order, with only N's URL replaced by u.
C1_RewriteChangesOnlyTarget ==
    cfgPc = "updated" =>
        /\ parseGitConfig(cfgText) = cfgRemotes
        /\ parseGitConfig(cfgOut) = WithUrl(parseGitConfig(cfgText), cfgName, cfgUrl)

\* C1 witness: the second of two remotes was rewritten to a different URL.
C1_Witness ==
    /\ cfgPc = "updated"
    /\ Len(cfgRemotes) = 2
    /\ cfgName = cfgRemotes[2].name
    /\ cfgUrl # cfgRemotes[2].url
    /\ parseGitConfig(cfgOut)[2].url = cfgUrl

\* C2: for every recognized URL whose owner is A and every B # A, the owner
\* of replace(url, A, B) is B, and replacing B by A again restores url.
C2_ReplaceRoundTrip ==
    (/\ urlPc = "restored"
     /\ isGitHubUrl(urlIn)
     /\ extractGitHubUsername(urlIn) = urlOld
     /\ urlNew # urlOld)
    => /\ extractGitHubUsername(urlOut) = urlNew
       /\ urlBack = urlIn

-----------------------------------------------------------------------------
(* ignore-patterns.ts and scanner.ts: which directory names a scan skips.  *)

\* The denylist, in the order of the source.
IGNORE_PATTERNS == <<
    <<"n","o","d","e","_","m","o","d","u","l","e","s">>,
    <<".","p","n","p","m","-","s","t","o","r","e">>,
    <<".","n","p","m">>,
    <<".","y","a","r","n">>,
    <<".","b","u","n">>,
    <<"v","e","n","d","o","r">>,
    <<".","c","a","r","g","o">>,
    <<".","r","u","s","t","u","p">>,
    <<"g","o","/","p","k","g">>,
    <<".","g","r","a","d","l","e">>,
    <<".","m","2">>,
    <<".","i","v","y","2">>,
    <<".","s","b","t">>,
    <<"P","o","d","s">>,
    <<".","p","u","b","-","c","a","c","h","e">>,
    <<".","n","u","g","e","t">>,
    <<".","v","e","n","v">>,
    <<"v","e","n","v">>,
    <<"_","_","p","y","c","a","c","h","e","_","_">>,
    <<".","c","o","n","d","a">>,
    <<".","v","i","r","t","u","a","l","e","n","v","s">>,
    <<"d","i","s","t">>,
    <<"b","u","i","l","d">>,
    <<"o","u","t">>,
    <<"t","a","r","g","e","t">>,
    <<".","n","e","x","t">>,
    <<".","n","u","x","t">>,
    <<".","o","u","t","p","u","t">>,
    <<".","i","d","e","a">>,
    <<".","v","s">>,
    <<".","f","l","e","e","t">>,
    <<"L","i","b","r","a","r","y","/","C","a","c","h","e","s">>,
    <<"L","i","b","r","a","r","y","/","A","p","p","l","i","c","a","t","i","o","n"," ","S","u","p","p","o","r","t">>,
    <<"L","i","b","r","a","r","y","/","D","e","v","e","l","o","p","e","r">>,
    <<"L","i","b","r","a","r","y","/","C","o","n","t","a","i","n","e","r","s">>,
    <<"L","i","b","r","a","r","y","/","G","r","o","u","p"," ","C","o","n","t","a","i","n","e","r","s">>,
    <<".","T","r","a","s","h">>,
    <<".","c","a","c","h","e">>,
    <<".","l","o","c","a","l","/","s","h","a","r","e","/","T","r","a","s","h">>,
    <<"s","n","a","p">>,
    <<"A","p","p","D","a","t","a","/","L","o","c","a","l","/","T","e","m","p">>,
    <<"A","p","p","D","a","t","a","/","L","o","c","a","l","/","n","p","m","-","c","a","c","h","e">>,
    <<"A","p","p","D","a","t","a","/","R","o","a","m","i","n","g","/","n","p","m","-","c","a","c","h","e">>,
    <<".","g","i","t","/","o","b","j","e","c","t","s">>,
    <<".","g","i","t","/","l","f","s">>,
    <<".","s","v","n">>,
    <<".","h","g">>,
    <<".","d","o","c","k","e","r">>,
    <<".","v","a","g","r","a","n","t">>,
    <<"V","i","r","t","u","a","l","B","o","x"," ","V","M","s">>,
    <<"D","r","o","p","b","o","x">>,
    <<"G","o","o","g","l","e"," ","D","r","i","v","e">>,
    <<"O","n","e","D","r","i","v","e">>,
    <<"i","C","l","o","u","d"," ","D","r","i","v","e">>,
    <<"D","o","w","n","l","o","a","d","s">>,
    <<".","S","p","o","t","l","i","g","h","t","-","V","1","0","0">>,
    <<".","f","s","e","v","e","n","t","s","d">>,
    <<".","D","o","c","u","m","e","n","t","R","e","v","i","s","i","o","n","s","-","V","1","0","0">>,
    <<".","T","e","m","p","o","r","a","r","y","I","t","e","m","s">> >>

\* Mutant of shouldIgnoreSegment: no name is on the denylist.
shouldIgnoreSegment_none(segment) == FALSE

\* Mutant of shouldIgnoreSegment: equality with an entry only.
shouldIgnoreSegment_exact(segment) ==
    \E i \in 1..Len(IGNORE_PATTERNS) : segment = IGNORE_PATTERNS[i]

\* shouldIgnoreSegment: a name is skipped when it equals or contains an entry.
shouldIgnoreSegment(segment) ==
    \E i \in 1..Len(IGNORE_PATTERNS) :
        segment = IGNORE_PATTERNS[i] \/ includes(segment, IGNORE_PATTERNS[i])

\* matchGlob: the pattern from position i on against name from position j on.
\* "**" is ".*", "*" is "[^/]*", "?" is ".", every other character is itself;
\* the expression is anchored at both ends and ignores case.
RECURSIVE globFrom(_, _, _, _)
globFrom(pattern, i, name, j) ==
    IF i > Len(pattern) THEN j > Len(name)
    ELSE IF pattern[i] = "*" /\ i < Len(pattern) /\ pattern[i + 1] = "*"
      THEN \E k \in j..(Len(name) + 1) :
              /\ \A m \in j..(k - 1) : IsDotChar(name[m])
              /\ globFrom(pattern, i + 2, name, k)
    ELSE IF pattern[i] = "*"
      THEN \E k \in j..(Len(name) + 1) :
              /\ \A m \in j..(k - 1) : name[m] # "/"
              /\ globFrom(pattern, i + 1, name, k)
    ELSE IF pattern[i] = "?"
      THEN /\ j <= Len(name)
           /\ IsDotChar(name[j])
           /\ globFrom(pattern, i + 1, name, j + 1)
    ELSE /\ j <= Len(name)
         /\ toLowerCase(<<name[j]>>) = toLowerCase(<<pattern[i]>>)
         /\ globFrom(pattern, i + 1, name, j + 1)

\* Mutant of matchGlob: the expression without its ^ and $ anchors.
matchGlob_anywhere(pattern, name) ==
    \E a \in 1..(Len(name) + 1) : \E b \in (a - 1)..Len(name) :
        globFrom(pattern, 1, SubSeq(name, a, b), 1)

matchGlob(pattern, name) == globFrom(pattern, 1, name, 1)

matchesExcludePattern(name, patterns) ==
    \E i \in 1..Len(patterns) : matchGlob(patterns[i], name)

\* Mutant of hasMatches: every repository found is pushed.
hasMatches_always(matchedRemotes) == TRUE

\* if (matchedRemotes.length > 0)
hasMatches(matchedRemotes) == Len(matchedRemotes) > 0

\* The loop of findMatchingRemotes over the remotes read from the config.
RECURSIVE matchRemotes(_, _, _)
matchRemotes(remotes, oldUsername, newUsername) ==
    IF remotes = <<>> THEN <<>>
    ELSE (IF urlContainsUsername(remotes[1].url, oldUsername)
          THEN <<[remote |-> remotes[1],
                  newUrl |-> replaceGitHubUsername(remotes[1].url, oldUsername,
                                                   newUsername)]>>
          ELSE <<>>)
         \o matchRemotes(Tail(remotes), oldUsername, newUsername)

-----------------------------------------------------------------------------
(* The file systems a scan is run on.  A directory is identified by its    *)
(* node; the scan root is node 0 and entries 1..5 lie below it:            *)
(*     root / {1 / 2 / 3, 5 (no directory), 4}                             *)
(* Entry 5 is a plain file or a symbolic link that leads back to the scan  *)
(* root; readdir's Dirent says isDirectory() = false in both cases.        *)

ScanRoot == 0
DirNodes == {0, 1, 2, 3, 4}
FileNodes == {5}

\* The directory an entry leads to: itself, or the target of the link.
LinkTarget(entry) == IF entry \in FileNodes THEN ScanRoot ELSE entry

\* Mutant of isDirectory: a symbolic link to a directory counts as one.
isDirectory_followLinks(entry) == TRUE

\* entry.isDirectory() of a Dirent: false for files and symbolic links.
isDirectory(entry) == entry \in DirNodes

\* What readdir returns for a directory, in its order.
Children(n) ==
    CASE n = 0 -> <<1, 5, 4>>
      [] n = 1 -> <<2>>
      [] n = 2 -> <<3>>
      [] OTHER -> <<>>

\* Names of entry 1: plain, on the denylist, containing a denylist entry,
\* hidden, matching the glob "tmp*".
TopNames == {<<"a","p","p">>, <<"n","o","d","e","_","m","o","d","u","l","e","s">>,
             <<"m","y","d","i","s","t">>, <<".","c","f","g">>, <<"t","m","p","1">>}

\* Names of entry 2: plain, on the denylist, containing a denylist entry.
InnerNames == {<<"s","r","c">>, <<"b","u","i","l","d">>, <<"l","a","y","o","u","t">>}

NamesOf(top, inner) ==
    [n \in 1..5 |->
        CASE n = 1 -> top
          [] n = 2 -> inner
          [] n = 3 -> <<"r","e","p","o">>
          [] n = 4 -> <<"w","o","r","k">>
          [] OTHER -> <<"R","E","A","D","M","E">>]

\* The remotes each directory's .git/config is rendered from, if it is a
\* repository.
NodeRemotes ==
    [n \in DirNodes |->
        CASE n = 0 -> <<[name |-> <<"o","r","i","g","i","n">>,
                         url  |-> <<"g","i","t","@","g","i","t","h","u","b",".","c","o","m",":","a","l","i","c","e","/","r","o","o","t",".","g","i","t">>]>>
          [] n = 1 -> <<[name |-> <<"o","r","i","g","i","n">>,
                         url  |-> <<"g","i","t","@","g","i","t","l","a","b",".","c","o","m",":","a","l","i","c","e","/","f","o","u","r",".","g","i","t">>],
                        [name |-> <<"u","p">>,
                         url  |-> <<"h","t","t","p","s",":","/","/","g","i","t","h","u","b",".","c","o","m","/","a","l","i","c","e","/","f","o","u","r",".","g","i","t">>]>>
          [] n = 2 -> <<[name |-> <<"o","r","i","g","i","n">>,
                         url  |-> <<"h","t","t","p","s",":","/","/","g","i","t","h","u","b",".","c","o","m","/","a","l","i","c","e","/","t","w","o">>]>>
          [] n = 3 -> <<[name |-> <<"o","r","i","g","i","n">>,
                         url  |-> <<"g","i","t","@","g","i","t","h","u","b",".","c","o","m",":","b","o","b","/","t","h","r","e","e",".","g","i","t">>]>>
          [] OTHER -> <<[name |-> <<"o","r","i","g","i","n">>,
                         url  |-> <<"g","i","t","@","g","i","t","h","u","b",".","c","o","m",":","A","l","i","c","e","/","o","n","e",".","g","i","t">>],
                        [name |-> <<"u","p">>,
                         url  |-> <<"h","t","t","p","s",":","/","/","g","i","t","h","u","b",".","c","o","m","/","b","o","b","/","o","n","e">>]>>]

\* The text of each repository's .git/config.
FsConfig == [n \in DirNodes |-> createGitConfig(NodeRemotes[n])]

\* getRemoteUrls: read the config of a repository and parse it.
ParsedConfig == [n \in DirNodes |-> parseGitConfig(FsConfig[n])]
\* The remotes of a config another process has rewritten in the meantime:
\* origin points to another repository of the old owner.
RewrittenRemotes ==
    <<[name |-> <<"o","r","i","g","i","n">>, url |-> <<"g","i","t","@","g","i","t","h","u","b",".","c","o","m",":","a","l","i","c","e","/","m","o","v","e","d",".","g","i","t">>]>>
RewrittenConfig == parseGitConfig(createGitConfig(RewrittenRemotes))

getRemoteUrls(repoPath) ==
    IF repoPath \in fsRewritten THEN RewrittenConfig ELSE ParsedConfig[repoPath]

\* Mutant of getRemoteUrlsThrows: every read succeeds.
getRemoteUrlsThrows_never(git, unreadable, repoPath) == FALSE

\* Whether the readFile of getRemoteUrls rejects: there is no .git/config
\* under repoPath, or it cannot be read.
getRemoteUrlsThrows(git, unreadable, repoPath) ==
    ~git[repoPath] \/ repoPath \in unreadable

\* The repositories whose config may become unreadable between the two reads
\* the scan makes of it.
VanishingConfigs == {1}

\* Largest maxDepth option tried.
MaxDepthOption == 3

\* The maxDepth a scan uses when its options give none.
DEFAULT_MAX_DEPTH == 20

\* The maxDepth options tried: a number, or none.
MaxDepthOptions ==
    {[given |-> TRUE, value |-> d] : d \in 0..MaxDepthOption}
        \cup {[given |-> FALSE, value |-> 0]}

\* const { maxDepth = 20 } = options
maxDepthOf(option) == IF option.given THEN option.value ELSE DEFAULT_MAX_DEPTH

ExcludeOptions == {<<>>, <<<<"t","m","p","*">>>>}

\* Which directory fails to list and which config fails to read.
FaultPlans ==
    {[list |-> {}, config |-> {}], [list |-> {1}, config |-> {}],
     [list |-> {}, config |-> {1}], [list |-> {0}, config |-> {}]}

-----------------------------------------------------------------------------
(* Specification SpecScan: scanForRepositories consuming scanDirectory.    *)

NoEvent == [type |-> "none"]

\* Date.now() when the scan is called, and the throttle of updateProgress.
ScanStartMs == 1000
progressThrottleMs == 100

\* The object given to onProgress; currentPath is <<path>>, or <<>> for ''.
\* The field "at" is the time of the call.
ScanProgress(currentPath, now) ==
    [currentPath |-> currentPath,
     directoriesScanned |-> directoriesScanned,
     skippedDirectories |-> skippedDirectories,
     repositoriesFound |-> repositoriesFound,
     matchedCount |-> Len(matchedRepositories),
     at |-> now]

\* Mutant of throttlePassed: every update is reported.
throttlePassed_always(now, last) == TRUE

\* now - lastProgressUpdate >= progressThrottleMs
throttlePassed(now, last) == now - last >= progressThrottleMs

\* Mutant of finalReportDue: the final report is throttled like the others.
finalReportDue_throttled(onProgress, now, last) ==
    onProgress /\ throttlePassed(now, last)

\* The condition of the final progress update: if (onProgress).
finalReportDue(onProgress, now, last) == onProgress

\* The innermost suspended scanDirectory call, and the stack around it.
TopFrame == genStack[Len(genStack)]
PopFrame == SubSeq(genStack, 1, Len(genStack) - 1)
SetTop(frame) == [genStack EXCEPT ![Len(genStack)] = frame]

InitScan ==
    /\ \E top \in TopNames, inner \in InnerNames : fsName = NamesOf(top, inner)
    /\ fsGit \in [DirNodes -> BOOLEAN]
    /\ \E plan \in FaultPlans :
          fsUnlistable = plan.list /\ fsUnreadable = plan.config
    /\ fsRewritten = {}
    /\ scanOld = <<"a","l","i","c","e">>
    /\ scanNew = <<"c","a","r","o","l">>
    /\ \E option \in MaxDepthOptions : scanMaxDepth = maxDepthOf(option)
    /\ scanExclude \in ExcludeOptions
    /\ scanAborted \in BOOLEAN
    /\ scanAbortedAtCall = scanAborted
    /\ scanOnProgress = TRUE
    /\ lastProgressUpdate = 0 /\ progressReports = <<>>
    /\ directRead = [kind |-> "none"]
    /\ genStack = <<[node |-> ScanRoot, depth |-> 0, pc |-> "enter", idx |-> 0]>>
    /\ scanEvent = NoEvent
    /\ scanPc = "iterating"
    /\ scanRepo = 0 /\ scanRemotes = <<>>
    /\ directoriesScanned = 0 /\ skippedDirectories = 0 /\ repositoriesFound = 0
    /\ matchedRepositories = <<>> /\ errors = <<>>
    /\ scanListed = {} /\ scanFound = <<>>
    /\ nowMs = ScanStartMs /\ loggers = <<>> /\ logDir = {}
    /\ CfgIdle /\ UrlIdle /\ MigIdle /\ AppIdle /\ DryIdle /\ MatchIdle

\* Mutant of aborted: the signal is never seen as set.
aborted_never(signal) == FALSE

\* signal?.aborted
aborted(signal) == signal

\* Mutant of tooDeep: no depth is too deep.
tooDeep_never(depth, maxDepth) == FALSE

\* Mutant of tooDeep: the directories at depth maxDepth are left out too.
tooDeep_off(depth, maxDepth) == depth >= maxDepth

\* The depth test of scanDirectory.
tooDeep(depth, maxDepth) == depth > maxDepth

\* The generator may run when the loop waits for its next event.
GenRuns == scanPc = "iterating" /\ scanEvent = NoEvent /\ genStack # <<>>

\* scanDirectory up to its first yield: the two early returns, then 'dir'.
GenEnter ==
    /\ GenRuns
    /\ TopFrame.pc = "enter"
    /\ IF aborted(scanAborted) \/ tooDeep(TopFrame.depth, scanMaxDepth)
       THEN genStack' = PopFrame /\ scanEvent' = NoEvent
       ELSE /\ genStack' = SetTop([TopFrame EXCEPT !.pc = "stat"])
            /\ scanEvent' = [type |-> "dir"]
    /\ UNCHANGED <<fsVars, scanArgs, scanAborted, scanPc, scanRepo, scanRemotes,
                   scanCounts, scanListed, scanFound, progVars, directRead,
                   notScanVars>>

\* Mutant of afterRepoYield: the call goes on to the entries of the repository.
afterRepoYield_descend(stack) ==
    [stack EXCEPT ![Len(stack)] = [@ EXCEPT !.pc = "loop", !.idx = 1]]

\* The return of scanDirectory after it yielded 'repo': the call is over.
afterRepoYield(stack) == SubSeq(stack, 1, Len(stack) - 1)

\* Mutant of afterErrorYield: a listing failure ends the whole walk.
afterErrorYield_stop(stack) == <<>>

\* The return of scanDirectory after it yielded 'error': this call is over.
afterErrorYield(stack) == SubSeq(stack, 1, Len(stack) - 1)

\* scanDirectory after 'dir' was taken: isGitRepository, then readdir.
GenStat ==
    /\ GenRuns
    /\ TopFrame.pc = "stat"
    /\ IF fsGit[TopFrame.node]
         THEN /\ scanEvent' = [type |-> "repo", path |-> TopFrame.node]
              /\ genStack' = afterRepoYield(genStack)
              /\ UNCHANGED scanListed
       ELSE IF TopFrame.node \in fsUnlistable
         THEN /\ scanEvent' = [type |-> "error", path |-> TopFrame.node,
                               message |-> "EACCES: permission denied, scandir"]
              /\ genStack' = afterErrorYield(genStack)
              /\ scanListed' = scanListed \cup {TopFrame.node}
       ELSE /\ scanEvent' = NoEvent
            /\ genStack' = SetTop([TopFrame EXCEPT !.pc = "loop", !.idx = 1])
            /\ scanListed' = scanListed \cup {TopFrame.node}
    /\ UNCHANGED <<fsVars, scanArgs, scanAborted, scanPc, scanRepo, scanRemotes,
                   scanCounts, scanFound, progVars, directRead, notScanVars>>

\* One iteration of scanDirectory's loop over the entries, or its end.
GenLoop ==
    /\ GenRuns
    /\ TopFrame.pc = "loop"
    /\ LET entries == Children(TopFrame.node)
           entry   == entries[TopFrame.idx]
           name    == fsName[entry]
           next    == [TopFrame EXCEPT !.idx = @ + 1]
       IN  IF TopFrame.idx > Len(entries) \/ aborted(scanAborted)
             THEN genStack' = PopFrame /\ scanEvent' = NoEvent
           ELSE IF ~isDirectory(entry)
             THEN genStack' = SetTop(next) /\ scanEvent' = NoEvent
           ELSE IF \/ startsWith(name, <<".">>) /\ name # <<".","g","i","t">>
                   \/ shouldIgnoreSegment(name)
                   \/ matchesExcludePattern(name, scanExclude)
             THEN genStack' = SetTop(next) /\ scanEvent' = [type |-> "skip"]
           ELSE /\ genStack' = Append(SetTop(next),
                                      [node |-> LinkTarget(entry),
                                       depth |-> TopFrame.depth + 1,
                                       pc |-> "enter", idx |-> 0])
                /\ scanEvent' = NoEvent
    /\ UNCHANGED <<fsVars, scanArgs, scanAborted, scanPc, scanRepo, scanRemotes,
                   scanCounts, scanListed, scanFound, progVars, directRead,
                   notScanVars>>

\* The body of the for-await loop on one event, up to its first await.
Consume ==
    /\ scanPc = "iterating"
    /\ scanEvent # NoEvent
    /\ scanEvent' = NoEvent
    /\ IF aborted(scanAborted)
         THEN /\ genStack' = <<>>
              /\ UNCHANGED <<scanPc, scanRepo, scanCounts, scanFound, progVars>>
       ELSE IF scanEvent.type = "dir"
         THEN /\ directoriesScanned' = directoriesScanned + 1
              /\ UNCHANGED <<genStack, scanPc, scanRepo, skippedDirectories,
                             repositoriesFound, matchedRepositories, errors,
                             scanFound, progVars>>
       ELSE IF scanEvent.type = "skip"
         THEN /\ skippedDirectories' = skippedDirectories + 1
              /\ UNCHANGED <<genStack, scanPc, scanRepo, directoriesScanned,
                             repositoriesFound, matchedRepositories, errors,
                             scanFound, progVars>>
       ELSE IF scanEvent.type = "error"
         THEN /\ errors' = Append(errors, [path |-> scanEvent.path,
                                           message |-> scanEvent.message])
              /\ UNCHANGED <<genStack, scanPc, scanRepo, directoriesScanned,
                             skippedDirectories, repositoriesFound,
                             matchedRepositories, scanFound, progVars>>
       ELSE /\ repositoriesFound' = repositoriesFound + 1
            /\ scanFound' = Append(scanFound, scanEvent.path)
            /\ scanRepo' = scanEvent.path
            /\ scanPc' = "remotes"
            /\ IF scanOnProgress /\ throttlePassed(nowMs, lastProgressUpdate)
               THEN /\ lastProgressUpdate' = nowMs
                    /\ progressReports' =
                          Append(progressReports,
                                 [ScanProgress(<<scanEvent.path>>, nowMs)
                                    EXCEPT !.repositoriesFound = repositoriesFound + 1])
               ELSE UNCHANGED progVars
            /\ UNCHANGED <<genStack, directoriesScanned, skippedDirectories,
                           matchedRepositories, errors>>
    /\ UNCHANGED <<fsVars, scanArgs, scanAborted, scanRemotes, scanListed,
                   directRead, notScanVars>>

\* await getRemoteUrls(event.path), or the catch when the read fails.
ReadRemotes ==
    /\ scanPc = "remotes"
    /\ IF getRemoteUrlsThrows(fsGit, fsUnreadable, scanRepo)
       THEN /\ errors' = Append(errors, [path |-> scanRepo,
                                         message |-> "ENOENT: no such file, open"])
            /\ scanPc' = "iterating"
            /\ UNCHANGED scanRemotes
       ELSE /\ scanRemotes' = getRemoteUrls(scanRepo)
            /\ scanPc' = "matching"
            /\ UNCHANGED errors
    /\ UNCHANGED <<fsVars, scanArgs, scanAborted, genStack, scanEvent, scanRepo,
                   directoriesScanned, skippedDirectories, repositoriesFound,
                   matchedRepositories, scanListed, scanFound, progVars,
                   directRead, notScanVars>>

\* findMatchingRemotes on its own read of the config.
findMatchingRemotes(repoPath, oldUsername, newUsername) ==
    matchRemotes(getRemoteUrls(repoPath), oldUsername, newUsername)

\* await findMatchingRemotes(...), then the push of a repository that matched.
MatchRemotes ==
    /\ scanPc = "matching"
    /\ scanPc' = "iterating"
    /\ IF getRemoteUrlsThrows(fsGit, fsUnreadable, scanRepo)
       THEN /\ errors' = Append(errors, [path |-> scanRepo,
                                         message |-> "ENOENT: no such file, open"])
            /\ UNCHANGED matchedRepositories
       ELSE LET matchedRemotes == findMatchingRemotes(scanRepo, scanOld, scanNew)
            IN  /\ matchedRepositories' =
                      IF hasMatches(matchedRemotes)
                      THEN Append(matchedRepositories,
                                  [path |-> scanRepo, remotes |-> scanRemotes,
                                   matchedRemotes |-> matchedRemotes])
                      ELSE matchedRepositories
                /\ UNCHANGED errors
    /\ UNCHANGED <<fsVars, scanArgs, scanAborted, genStack, scanEvent, scanRepo,
                   scanRemotes, directoriesScanned, skippedDirectories,
                   repositoriesFound, scanListed, scanFound, progVars, directRead,
                   notScanVars>>

\* The loop ended (generator exhausted or break): the result is returned.
ScanReturn ==
    /\ scanPc = "iterating"
    /\ scanEvent = NoEvent
    /\ genStack = <<>>
    /\ scanPc' = "done"
    /\ progressReports' =
          IF finalReportDue(scanOnProgress, nowMs, lastProgressUpdate)
          THEN Append(progressReports, ScanProgress(<<>>, nowMs))
          ELSE progressReports
    /\ UNCHANGED <<fsVars, scanArgs, scanAborted, genStack, scanEvent, scanRepo,
                   scanRemotes, scanCounts, scanListed, scanFound,
                   lastProgressUpdate, directRead, notScanVars>>

\* The caller aborts the signal while the scan runs.
AbortScan ==
    /\ scanPc \in {"iterating", "remotes", "matching"}
    /\ ~scanAborted
    /\ scanAborted' = TRUE
    /\ UNCHANGED <<fsVars, scanArgs, genStack, scanEvent, scanPc, scanRepo,
                   scanRemotes, scanCounts, scanListed, scanFound, progVars,
                   directRead, notScanVars>>

\* The config of the repository being read becomes unreadable after the
\* scan's first read of it and before the second.
ConfigVanishes ==
    /\ scanPc = "matching"
    /\ scanRepo \in VanishingConfigs \ fsUnreadable
    /\ fsUnreadable' = fsUnreadable \cup {scanRepo}
    /\ UNCHANGED <<fsName, fsGit, fsUnlistable, fsRewritten, scanArgs, scanAborted,
                   genStack, scanEvent, scanPc, scanRepo, scanRemotes, scanCounts,
                   scanListed, scanFound, progVars, directRead, notScanVars>>

\* The paths the caller reads directly.
DirectReadPaths == {1, 4}

\* After the scan the caller calls getRemoteUrls itself, outside any try.
GetRemoteUrlsDirect ==
    /\ scanPc = "done"
    /\ directRead.kind = "none"
    /\ \E repoPath \in DirectReadPaths :
          directRead' =
              IF getRemoteUrlsThrows(fsGit, fsUnreadable, repoPath)
              THEN [kind |-> "threw", path |-> repoPath, remotes |-> <<>>]
              ELSE [kind |-> "returned", path |-> repoPath,
                    remotes |-> getRemoteUrls(repoPath)]
    /\ UNCHANGED <<fsVars, scanArgs, scanAborted, genStack, scanEvent, scanPc,
                   scanRepo, scanRemotes, scanCounts, scanListed, scanFound,
                   progVars, notScanVars>>

NextScan ==
    \/ GenEnter \/ GenStat \/ GenLoop
    \/ Consume \/ ReadRemotes \/ MatchRemotes \/ ScanReturn
    \/ AbortScan \/ ConfigVanishes \/ GetRemoteUrlsDirect

SpecScan == InitScan /\ [][NextScan]_vars

-----------------------------------------------------------------------------
(* Specification SpecProgress: a scan with and without a progress sink     *)
(* while the clock advances.                                               *)

\* Longest time a scan takes, and the steps of the clock, in milliseconds.
MaxElapsedMs == 200
ScanTickSteps == {50, 100}

InitProgress ==
    /\ fsName = NamesOf(<<"a","p","p">>, <<"s","r","c">>)
    /\ fsGit \in [DirNodes -> BOOLEAN]
    /\ fsUnlistable \in {{}, {ScanRoot}} /\ fsUnreadable = {}
    /\ fsRewritten = {}
    /\ scanOld = <<"a","l","i","c","e">>
    /\ scanNew = <<"c","a","r","o","l">>
    /\ scanMaxDepth = maxDepthOf([given |-> FALSE, value |-> 0])
    /\ scanExclude = <<>>
    /\ scanAborted \in BOOLEAN
    /\ scanAbortedAtCall = scanAborted
    /\ scanOnProgress \in BOOLEAN
    /\ lastProgressUpdate = 0 /\ progressReports = <<>>
    /\ directRead = [kind |-> "none"]
    /\ genStack = <<[node |-> ScanRoot, depth |-> 0, pc |-> "enter", idx |-> 0]>>
    /\ scanEvent = NoEvent
    /\ scanPc = "iterating"
    /\ scanRepo = 0 /\ scanRemotes = <<>>
    /\ directoriesScanned = 0 /\ skippedDirectories = 0 /\ repositoriesFound = 0
    /\ matchedRepositories = <<>> /\ errors = <<>>
    /\ scanListed = {} /\ scanFound = <<>>
    /\ nowMs = ScanStartMs /\ loggers = <<>> /\ logDir = {}
    /\ CfgIdle /\ UrlIdle /\ MigIdle /\ AppIdle /\ DryIdle /\ MatchIdle

\* Time passes while the scan runs.
ScanTick ==
    /\ scanPc \in {"iterating", "remotes", "matching"}
    /\ \E step \in ScanTickSteps :
          /\ nowMs + step <= ScanStartMs + MaxElapsedMs
          /\ nowMs' = nowMs + step
    /\ UNCHANGED <<loggers, logDir, notLgVars>>

NextProgress ==
    \/ GenEnter \/ GenStat \/ GenLoop
    \/ Consume \/ ReadRemotes \/ MatchRemotes \/ ScanReturn
    \/ AbortScan \/ ScanTick

SpecProgress == InitProgress /\ [][NextProgress]_vars

-----------------------------------------------------------------------------
(* Claims about the scanner.                                               *)

\* The directory an entry lies in.
Parent(n) == CHOOSE p \in DirNodes : \E i \in 1..Len(Children(p)) : Children(p)[i] = n

\* The directories on the path from just below the scan root down to n.
RECURSIVE PathBelowRoot(_)
PathBelowRoot(n) == IF n = ScanRoot THEN {} ELSE {n} \cup PathBelowRoot(Parent(n))

Depth(n) == Cardinality(PathBelowRoot(n))

\* The directories n lies beneath, the scan root included.
Enclosing(n) == IF n = ScanRoot THEN {} ELSE (PathBelowRoot(n) \ {n}) \cup {ScanRoot}

\* How often x occurs in a sequence.
Count(seq, x) == Cardinality({i \in 1..Len(seq) : seq[i] = x})

\* The scan returned, was never cancelled and recorded no error.
ScanCleanlyDone == scanPc = "done" /\ ~scanAborted /\ errors = <<>>

\* Group 2 of the URL shape that recognizes url.
RepoSegment(url) ==
    IF githubExec(url, GITHUB_SSH_PREFIX).matched
    THEN githubExec(url, GITHUB_SSH_PREFIX).repo
    ELSE githubExec(url, GITHUB_HTTPS_PREFIX).repo

\* A remote whose GitHub owner is the old username, whatever the case.
OwnedByOld(remote) ==
    /\ isGitHubUrl(remote.url)
    /\ toLowerCase(extractGitHubUsername(remote.url)) = toLowerCase(scanOld)

HasRemoteOfOld(n) == \E i \in 1..Len(NodeRemotes[n]) : OwnedByOld(NodeRemotes[n][i])

\* C3: without custom pattern, cancellation and errors, the matched
\* repositories are exactly the discovered repositories with a remote owned
\* by the old username (case-insensitively), in discovery order; the matched
\* remotes of each are exactly those remotes, and every newUrl has the new
\* owner and the repository segment of the original URL.
C3_MatchedExactlyOwned ==
    ScanCleanlyDone =>
        /\ [i \in 1..Len(matchedRepositories) |-> matchedRepositories[i].path]
              = SelectSeq(scanFound, HasRemoteOfOld)
        /\ \A i \in 1..Len(matchedRepositories) :
              LET m == matchedRepositories[i]
              IN  /\ m.remotes = NodeRemotes[m.path]
                  /\ [j \in 1..Len(m.matchedRemotes) |-> m.matchedRemotes[j].remote]
                        = SelectSeq(NodeRemotes[m.path], OwnedByOld)
                  /\ \A j \in 1..Len(m.matchedRemotes) :
                        LET e == m.matchedRemotes[j]
                        IN  /\ extractGitHubUsername(e.newUrl) = scanNew
                            /\ RepoSegment(e.newUrl) = RepoSegment(e.remote.url)

\* C3 witness: a clean scan found a repository none of whose remotes match,
\* and matched repositories of which one has a remote left unmatched and one
\* spells the owner in another case.
C3_Witness ==
    /\ ScanCleanlyDone
    /\ \E i \in 1..Len(scanFound) : ~HasRemoteOfOld(scanFound[i])
    /\ \E i \in 1..Len(matchedRepositories) :
          /\ Len(matchedRepositories[i].matchedRemotes) = 1
          /\ Len(matchedRepositories[i].remotes) = 2
    /\ \E i \in 1..Len(matchedRepositories) :
          extractGitHubUsername(matchedRepositories[i].matchedRemotes[1].remote.url)
              # scanOld

\* A name that is an entry of the denylist.
OnDenylist(name) == \E i \in 1..Len(IGNORE_PATTERNS) : name = IGNORE_PATTERNS[i]

\* A repository lying beneath a directory whose name is on the denylist.
BeneathDenylisted(n) ==
    \E a \in PathBelowRoot(n) \ {n} : OnDenylist(fsName[a])

\* C4: a repository anywhere beneath a directory whose name is on the
\* denylist is never counted in repositoriesFound and never matched.
C4_NothingBeneathDenylisted ==
    /\ \A i \in 1..Len(scanFound) : ~BeneathDenylisted(scanFound[i])
    /\ \A i \in 1..Len(matchedRepositories) :
          ~BeneathDenylisted(matchedRepositories[i].path)
    /\ repositoriesFound = Len(scanFound)

\* C4 witness: a scan that ran to its end skipped node_modules, which holds
\* a repository two levels down, and still found the repository next to it.
C4_Witness ==
    /\ scanPc = "done" /\ ~scanAborted
    /\ OnDenylist(fsName[1])
    /\ ~fsGit[0] /\ ~fsGit[1] /\ ~fsGit[2] /\ fsGit[3] /\ fsGit[4]
    /\ scanMaxDepth >= 3
    /\ skippedDirectories = 1
    /\ scanFound = <<4>>

\* A directory the walk has to count as a repository.
Eligible(n) ==
    /\ fsGit[n]
    /\ Depth(n) <= scanMaxDepth
    /\ \A a \in PathBelowRoot(n) :
          /\ ~startsWith(fsName[a], <<".">>)
          /\ ~shouldIgnoreSegment(fsName[a])
          /\ ~matchesExcludePattern(fsName[a], scanExclude)
    /\ \A a \in Enclosing(n) : ~fsGit[a]

\* C5: without cancellation and listing errors, every directory that holds
\* .git, lies at depth <= maxDepth and has on its path below the root no
\* dot-directory, no name the denylist rejects, no exclude-glob match and no
\* enclosing repository root is counted in repositoriesFound exactly once.
C5_EveryEligibleCountedOnce ==
    (scanPc = "done" /\ ~scanAborted /\ scanListed \cap fsUnlistable = {}) =>
        /\ \A n \in DirNodes : Eligible(n) => Count(scanFound, n) = 1
        /\ \A n \in DirNodes : Count(scanFound, n) <= 1
        /\ repositoriesFound = Len(scanFound)

\* C5 witness: repositories at depths 1 and 3 = maxDepth were both counted,
\* below a directory whose name an exclude glob does not match.
C5_Witness ==
    /\ scanPc = "done" /\ ~scanAborted /\ scanListed \cap fsUnlistable = {}
    /\ scanMaxDepth = 3
    /\ scanExclude # <<>>
    /\ Eligible(3) /\ Eligible(4)
    /\ scanFound = <<3, 4>>
    /\ repositoriesFound = 2

\* C10: a scan called with the signal already set counts no directory and no
\* repository, matches nothing, records no error and lists no directory; it
\* does nothing but leave scanDirectory at its first check and return.
C10_AbortedAtCallDoesNothing ==
    scanAbortedAtCall =>
        /\ directoriesScanned = 0 /\ repositoriesFound = 0
        /\ matchedRepositories = <<>> /\ errors = <<>>
        /\ scanListed = {} /\ scanEvent = NoEvent
        /\ \/ scanPc = "done"
           \/ scanPc = "iterating" /\ genStack = <<>>
           \/ scanPc = "iterating" /\ Len(genStack) = 1 /\ TopFrame.pc = "enter"

\* C10 witness: such a scan has returned, on a root that is a repository.
C10_Witness ==
    /\ scanAbortedAtCall
    /\ scanPc = "done"
    /\ fsGit[ScanRoot]

-----------------------------------------------------------------------------
(* migrator.ts and logger.ts: the inputs of a migration.                   *)

MigOld == <<"a","l","i","c","e">>
MigNew == <<"c","a","r","o","l">>

\* A MatchedRepository as a scan for MigOld -> MigNew records it.
MatchedRepository(path, remotes) ==
    [path |-> path, remotes |-> remotes,
     matchedRemotes |-> matchRemotes(remotes, MigOld, MigNew)]

\* The repositories a batch is made of: two matched remotes, one, one.
MigPool ==
    {MatchedRepository("/w/a",
        <<[name |-> <<"o","r","i","g","i","n">>, url |-> <<"g","i","t","@","g","i","t","h","u","b",".","c","o","m",":","a","l","i","c","e","/","a",".","g","i","t">>],
          [name |-> <<"u","p">>, url |-> <<"h","t","t","p","s",":","/","/","g","i","t","h","u","b",".","c","o","m","/","a","l","i","c","e","/","a">>]>>),
     MatchedRepository("/w/b",
        <<[name |-> <<"o","r","i","g","i","n">>, url |-> <<"h","t","t","p","s",":","/","/","g","i","t","h","u","b",".","c","o","m","/","A","l","i","c","e","/","b",".","g","i","t">>]>>),
     MatchedRepository("/w/c",
        <<[name |-> <<"o","r","i","g","i","n">>, url |-> <<"g","i","t","@","g","i","t","h","u","b",".","c","o","m",":","a","l","i","c","e","/","c",".","g","i","t">>],
          [name |-> <<"g","l">>, url |-> <<"g","i","t","@","g","i","t","l","a","b",".","c","o","m",":","a","l","i","c","e","/","c",".","g","i","t">>]>>)}

MigPaths == {r.path : r \in MigPool}

\* Longest batch.
MaxRepos == 3

\* Batches: lists of distinct repositories of the pool.
MigBatches ==
    UNION {{l \in [1..n -> MigPool] : \A i, j \in 1..n : i # j => l[i] # l[j]} :
              n \in 0..MaxRepos}

\* A MigrateOptions object, and an array passed where one is expected.
OptionsObject(batch) == [kind |-> "object", repositories |-> batch]
ArrayValue(items) == [kind |-> "array", items |-> items]

\* The file system when migrate is called: each path is intact, gone, or has
\* a config that cannot be written.
FsOf(status) ==
    [q \in MigPaths |->
        LET r == CHOOSE x \in MigPool : x.path = q
        IN  [exists |-> status[q] # "missing", text |-> createGitConfig(r.remotes)]]

\* setRemoteUrl: read the config, rewrite the remote, write the config back.
setRemoteUrl(fs, readOnly, repoPath, remoteName, newUrl) ==
    IF ~fs[repoPath].exists
      THEN [ok |-> FALSE, error |-> "ENOENT: no such file or directory, open",
            fs |-> fs]
    ELSE IF repoPath \in readOnly
      THEN [ok |-> FALSE, error |-> "EACCES: permission denied, open", fs |-> fs]
    ELSE [ok |-> TRUE, error |-> "",
          fs |-> [fs EXCEPT ![repoPath].text =
                      updateRemoteInConfig(@, remoteName, newUrl)]]

\* The MigrationLogEntry of logSuccess and logFailure (timestamp left out).
LogEntry(repository, matched, success, error) ==
    [repositoryPath |-> repository.path, remoteName |-> matched.remote.name,
     oldUrl |-> matched.remote.url, newUrl |-> matched.newUrl,
     success |-> success, error |-> error]

\* The entry migrateRepository pushes for one remote.
RemoteResult(matched, success, error) ==
    IF success
    THEN [remoteName |-> matched.remote.name, oldUrl |-> matched.remote.url,
          newUrl |-> matched.newUrl, success |-> TRUE]
    ELSE [remoteName |-> matched.remote.name, oldUrl |-> matched.remote.url,
          newUrl |-> matched.newUrl, success |-> FALSE, error |-> error]

-----------------------------------------------------------------------------
(* Specification SpecMigrate: migrate over a batch, with a failing disk.   *)

InitMigrate ==
    /\ \E batch \in MigBatches : migOptions = OptionsObject(batch)
    /\ \E status \in [MigPaths -> {"ok", "missing", "readonly"}] :
          /\ migFs = FsOf(status)
          /\ migReadOnly = {q \in MigPaths : status[q] = "readonly"}
    /\ migAborted \in BOOLEAN
    /\ migAbortedAtCall = migAborted
    /\ migPc = "init"
    /\ migRepo = 0 /\ migRemote = 0
    /\ repoResults = <<>> /\ results = <<>> /\ completed = 0 /\ errorMessage = ""
    /\ logInitialized = FALSE /\ logEntries = <<>>
    /\ logSummary = [totalRepositories |-> 0, successfulMigrations |-> 0,
                     failedMigrations |-> 0]
    /\ logFile = <<>> /\ migProgress = <<>> /\ migAttempted = <<>> /\ logFaults = 0
    /\ CfgIdle /\ UrlIdle /\ ScanIdle /\ AppIdle /\ DryIdle /\ LgIdle /\ MatchIdle

\* const { repositories, onProgress, ... } = options: a property is undefined
\* unless options is an object that has it.
HasRepositories == migOptions.kind = "object"
HasOnProgress == migOptions.kind = "object"
migRepositories == migOptions.repositories

\* The repository and the matched remote the two loops are at.
CurRepository == migRepositories[migRepo]
CurMatched == CurRepository.matchedRemotes[migRemote]

\* Mutant of Progress: total counts the repositories still to come.
Progress_remaining(done, current, res) ==
    [total |-> Len(migOptions.repositories) - done, completed |-> done,
     currentRepository |-> current, results |-> res]

\* A report handed to onProgress.
Progress(done, current, res) ==
    [total |-> Len(migRepositories), completed |-> done,
     currentRepository |-> current, results |-> res]

\* Mutant of signalAborted: the loop of migrate never looks at the signal.
signalAborted_never(signal) == FALSE

\* signal?.aborted at the head of the loop of migrate.
signalAborted(signal) == signal

\* createLogger, logger.initialize() and the initial progress report; a
\* failing mkdir or writeFile rejects migrate.
LogInitialize ==
    /\ migPc = "init"
    /\ \E ok \in BOOLEAN :
          IF ok
          THEN /\ logInitialized' = TRUE
               /\ logFile' = <<[block |-> "header", oldUsername |-> MigOld,
                                newUsername |-> MigNew]>>
               /\ migProgress' = IF HasOnProgress THEN <<Progress(0, "", <<>>)>>
                                  ELSE <<>>
               /\ migRepo' = 1
               /\ migPc' = "repo"
               /\ UNCHANGED logFaults
          ELSE /\ migPc' = "rejected"
               /\ logFaults' = logFaults + 1
               /\ UNCHANGED <<logInitialized, logFile, migProgress, migRepo>>
    /\ UNCHANGED <<migArgs, migFs, migAborted, migRemote, repoResults, results,
                   completed, errorMessage, logEntries, logSummary, migAttempted,
                   notMigVars>>

\* The head of the loop of migrate: a TypeError when repositories is not
\* iterable, the end of the batch, the break on the signal, or the progress
\* report before migrateRepository.
NextRepository ==
    /\ migPc = "repo"
    /\ IF ~HasRepositories
         THEN /\ migPc' = "rejected"
              /\ UNCHANGED <<migRemote, repoResults, migProgress>>
       ELSE IF migRepo > Len(migRepositories) \/ signalAborted(migAborted)
         THEN /\ migPc' = "finalize"
              /\ UNCHANGED <<migRemote, repoResults, migProgress>>
       ELSE /\ migProgress' = Append(migProgress,
                                     Progress(completed, CurRepository.path, results))
            /\ migRemote' = 1
            /\ repoResults' = <<>>
            /\ migPc' = "set"
    /\ UNCHANGED <<migArgs, migFs, migAborted, migRepo, results, completed,
                   errorMessage, logVars, migAttempted, notMigVars>>

\* await setRemoteUrl(...) for the next matched remote, or the catch.
SetRemoteUrl ==
    /\ migPc = "set"
    /\ migRemote <= Len(CurRepository.matchedRemotes)
    /\ LET r == setRemoteUrl(migFs, migReadOnly, CurRepository.path,
                             CurMatched.remote.name, CurMatched.newUrl)
       IN  /\ migFs' = r.fs
           /\ errorMessage' = r.error
           /\ migPc' = IF r.ok THEN "logSuccess" ELSE "logFailure"
    /\ migAttempted' = Append(migAttempted,
                              <<CurRepository.path, CurMatched.remote.name>>)
    /\ UNCHANGED <<migArgs, migAborted, migRepo, migRemote, repoResults, results,
                   completed, logVars, migProgress, notMigVars>>

\* await logger.logSuccess(...), then the push of the success entry; a
\* failing appendFile lands in the catch of migrateRepository.
LogSuccess ==
    /\ migPc = "logSuccess"
    /\ logEntries' = Append(logEntries, LogEntry(CurRepository, CurMatched, TRUE, ""))
    /\ \E ok \in BOOLEAN :
          IF ok
          THEN /\ logFile' = Append(logFile,
                                    LogEntry(CurRepository, CurMatched, TRUE, ""))
               /\ logSummary' =
                     [logSummary EXCEPT !.successfulMigrations = @ + 1,
                                        !.totalRepositories = @ + 1]
               /\ repoResults' = Append(repoResults, RemoteResult(CurMatched, TRUE, ""))
               /\ migRemote' = migRemote + 1
               /\ migPc' = "set"
               /\ UNCHANGED <<errorMessage, logFaults>>
          ELSE /\ errorMessage' = "ENOSPC: no space left on device, write"
               /\ logFaults' = logFaults + 1
               /\ migPc' = "logFailure"
               /\ UNCHANGED <<logFile, logSummary, repoResults, migRemote>>
    /\ UNCHANGED <<migArgs, migFs, migAborted, migRepo, results, completed,
                   logInitialized, migProgress, migAttempted, notMigVars>>

\* await logger.logFailure(...) inside the catch, then the push of the failure
\* entry; a failing appendFile leaves migrateRepository, and migrate, rejected.
LogFailure ==
    /\ migPc = "logFailure"
    /\ logEntries' = Append(logEntries,
                            LogEntry(CurRepository, CurMatched, FALSE, errorMessage))
    /\ \E ok \in BOOLEAN :
          IF ok
          THEN /\ logFile' = Append(logFile,
                                    LogEntry(CurRepository, CurMatched, FALSE,
                                             errorMessage))
               /\ logSummary' =
                     [logSummary EXCEPT !.failedMigrations = @ + 1,
                                        !.totalRepositories = @ + 1]
               /\ repoResults' = Append(repoResults,
                                        RemoteResult(CurMatched, FALSE, errorMessage))
               /\ migRemote' = migRemote + 1
               /\ migPc' = "set"
               /\ UNCHANGED logFaults
          ELSE /\ logFaults' = logFaults + 1
               /\ migPc' = "rejected"
               /\ UNCHANGED <<logFile, logSummary, repoResults, migRemote>>
    /\ UNCHANGED <<migArgs, migFs, migAborted, migRepo, results, completed,
                   errorMessage, logInitialized, migProgress, migAttempted,
                   notMigVars>>

\* migrateRepository returned: push its result, count it, report progress.
FinishRepository ==
    /\ migPc = "set"
    /\ migRemote > Len(CurRepository.matchedRemotes)
    /\ results' = Append(results, [repository |-> CurRepository,
                                   results |-> repoResults])
    /\ completed' = completed + 1
    /\ migProgress' = Append(migProgress, Progress(completed', "", results'))
    /\ migRepo' = migRepo + 1
    /\ migPc' = "repo"
    /\ UNCHANGED <<migArgs, migFs, migAborted, migRemote, repoResults,
                   errorMessage, logVars, migAttempted, notMigVars>>

\* await logger.finalize(), then the return of migrate.
Finalize ==
    /\ migPc = "finalize"
    /\ \E ok \in BOOLEAN :
          IF ok
          THEN /\ logFile' = Append(logFile, [block |-> "footer",
                                              summary |-> logSummary])
               /\ migPc' = "returned"
               /\ UNCHANGED logFaults
          ELSE /\ logFaults' = logFaults + 1
               /\ migPc' = "rejected"
               /\ UNCHANGED logFile
    /\ UNCHANGED <<migArgs, migFs, migAborted, migRepo, migRemote, repoResults,
                   results, completed, errorMessage, logInitialized, logEntries,
                   logSummary, migProgress, migAttempted, notMigVars>>

\* The caller aborts the signal while migrate runs.
AbortMigrate ==
    /\ migPc \notin {"idle", "returned", "rejected"}
    /\ ~migAborted
    /\ migAborted' = TRUE
    /\ UNCHANGED <<migArgs, migFs, migPc, migRepo, migRemote, repoResults, results,
                   completed, errorMessage, logVars, migProgress, migAttempted,
                   notMigVars>>

NextMigrate ==
    \/ LogInitialize \/ NextRepository \/ SetRemoteUrl \/ LogSuccess \/ LogFailure
    \/ FinishRepository \/ Finalize \/ AbortMigrate

SpecMigrate == InitMigrate /\ [][NextMigrate]_vars

-----------------------------------------------------------------------------
(* Claims about the migration executor.                                    *)

\* Reading, rewriting and writing the config of a path raise no error.
ConfigWritable(path) == migFs[path].exists /\ path \notin migReadOnly

\* C8: migrate, not cancelled, returns one MigrationResult per input
\* repository in input order, each with one entry per matched remote in
\* order; an entry has success = TRUE exactly when reading, rewriting and
\* writing that repository's config raised no error, and otherwise carries a
\* non-empty error, whatever happened to the other repositories.
C8_ResultsMirrorConfigOutcome ==
    (migPc = "returned" /\ ~migAborted) =>
        /\ Len(results) = Len(migRepositories)
        /\ \A i \in 1..Len(results) :
              LET repository == migRepositories[i]
                  res        == results[i].results
              IN  /\ results[i].repository = repository
                  /\ Len(res) = Len(repository.matchedRemotes)
                  /\ \A j \in 1..Len(res) :
                        /\ res[j].remoteName = repository.matchedRemotes[j].remote.name
                        /\ res[j].newUrl = repository.matchedRemotes[j].newUrl
                        /\ res[j].success = ConfigWritable(repository.path)
                        /\ ~res[j].success => res[j].error # ""

\* C9: whatever fails while a remote is processed (the read or the write of
\* a config, the append of an entry to the audit log), migrate is not left by
\* an exception: no step of the processing of a remote rejects migrate.
C9_NoFailureStopsBatch ==
    [][(migPc \in {"set", "logSuccess", "logFailure"}) => (migPc' # "rejected")]_vars

-----------------------------------------------------------------------------
(* Specification SpecApp: the phases of the App, driven by key presses.    *)

\* Number of repositories RepoList shows per page.
PAGE_SIZE == 10

Min(a, b) == IF a <= b THEN a ELSE b
Max(a, b) == IF a >= b THEN a ELSE b

\* Command lines that run the App, and index.tsx's applyChanges on them.
ArgLists == {<<"run">>, <<"--run">>, <<"run", "--apply">>, <<"run", "-a">>}
applyChanges(args) ==
    \E i \in 1..Len(args) : args[i] = "--apply" \/ args[i] = "-a"

\* The keys pressed: Enter, letters, arrows.
Keys == {"return", "y", "Y", "n", "N", "q", "j", "k", "x",
         "upArrow", "downArrow", "leftArrow", "rightArrow"}

\* What is typed into a field of UsernameInput.
TypedNames == {<<>>, <<" ">>, <<" ","a","l","i","c","e"," ">>, <<"c","a","r","o","l">>}

\* Mutant of handleConfirmMigration: the dryRun prop is not looked at.
handleConfirmMigration_always(isDryRun) == "migrating"

\* handleConfirmMigration: the phase set when the review is confirmed.
handleConfirmMigration(isDryRun) ==
    IF isDryRun THEN "dry-run-complete" ELSE "migrating"

\* handleCancelMigration: the phase set when the review is cancelled.
handleCancelMigration == "cancelled"

InitApp ==
    /\ \E args \in ArgLists : appDryRun = ~applyChanges(args)
    /\ phase = "welcome"
    /\ inputStep = "old" /\ typedOld = <<>> /\ typedNew = <<>>
    /\ appOldUsername = <<>> /\ appNewUsername = <<>> /\ matchedRepos = <<>>
    /\ selectedAction = "confirm" /\ scrollOffset = 0
    /\ migrationResults = <<>> /\ appExited = FALSE
    /\ appConfirmed = FALSE /\ appCancelled = FALSE /\ appMigrateCalls = 0
    /\ migOptions = [kind |-> "none"]
    /\ migFs = FsOf([q \in MigPaths |-> "ok"]) /\ migReadOnly = {}
    /\ migAborted = FALSE /\ migAbortedAtCall = FALSE
    /\ migPc = "idle" /\ migRepo = 0 /\ migRemote = 0
    /\ repoResults = <<>> /\ results = <<>> /\ completed = 0 /\ errorMessage = ""
    /\ logInitialized = FALSE /\ logEntries = <<>>
    /\ logSummary = [totalRepositories |-> 0, successfulMigrations |-> 0,
                     failedMigrations |-> 0]
    /\ logFile = <<>> /\ migProgress = <<>> /\ migAttempted = <<>> /\ logFaults = 0
    /\ CfgIdle /\ UrlIdle /\ ScanIdle /\ DryIdle /\ LgIdle /\ MatchIdle

\* The useInput handler of App, active outside input, scanning, review and
\* migrating.
AppInput ==
    /\ ~appExited
    /\ phase \in {"welcome", "no-matches", "complete", "cancelled", "dry-run-complete"}
    /\ \E key \in Keys :
          IF phase = "welcome"
            THEN /\ key = "return"
                 /\ phase' = "input"
                 /\ UNCHANGED appExited
          ELSE IF phase = "no-matches"
            THEN /\ key = "return" \/ key = "q"
                 /\ appExited' = TRUE
                 /\ UNCHANGED phase
          ELSE /\ appExited' = TRUE
               /\ UNCHANGED phase
    /\ UNCHANGED <<appDryRun, inputVars, appOldUsername, appNewUsername,
                   matchedRepos, listVars, migrationResults, appHistory, migVars,
                   notAppVars>>

\* The useInput handler of DryRunSummary: any key exits.
DryRunSummaryInput ==
    /\ ~appExited
    /\ phase = "dry-run-complete"
    /\ appExited' = TRUE
    /\ UNCHANGED <<appDryRun, phase, inputVars, appOldUsername, appNewUsername,
                   matchedRepos, listVars, migrationResults, appHistory, migVars,
                   notAppVars>>

\* The TextInput of UsernameInput's current step changes its value.
UsernameType ==
    /\ ~appExited
    /\ phase = "input"
    /\ \E typed \in TypedNames :
          IF inputStep = "old"
          THEN typedOld' = typed /\ UNCHANGED typedNew
          ELSE typedNew' = typed /\ UNCHANGED typedOld
    /\ UNCHANGED <<appDryRun, phase, inputStep, appOldUsername, appNewUsername,
                   matchedRepos, listVars, migrationResults, appExited, appHistory,
                   migVars, notAppVars>>

\* Enter in UsernameInput; on the second step handleUsernameSubmit of App.
UsernameReturn ==
    /\ ~appExited
    /\ phase = "input"
    /\ IF inputStep = "old" /\ trim(typedOld) # <<>>
         THEN /\ inputStep' = "new"
              /\ UNCHANGED <<phase, appOldUsername, appNewUsername>>
       ELSE IF inputStep = "new" /\ trim(typedNew) # <<>>
         THEN /\ appOldUsername' = trim(typedOld)
              /\ appNewUsername' = trim(typedNew)
              /\ phase' = "scanning"
              /\ UNCHANGED inputStep
       ELSE UNCHANGED <<inputStep, phase, appOldUsername, appNewUsername>>
    /\ UNCHANGED <<appDryRun, typedOld, typedNew, matchedRepos, listVars,
                   migrationResults, appExited, appHistory, migVars, notAppVars>>

\* runScan: scanForRepositories settles with a result or throws.
ScanSettles ==
    /\ ~appExited
    /\ phase = "scanning"
    /\ \/ \E matched \in MigBatches :
             /\ matchedRepos' = matched
             /\ phase' = IF Len(matched) = 0 THEN "no-matches" ELSE "review"
       \/ /\ phase' = "cancelled"
          /\ UNCHANGED matchedRepos
    /\ UNCHANGED <<appDryRun, inputVars, appOldUsername, appNewUsername, listVars,
                   migrationResults, appExited, appHistory, migVars, notAppVars>>

\* The useInput handler of RepoList.
RepoListInput ==
    /\ ~appExited
    /\ phase = "review"
    /\ \E key \in Keys :
          LET n       == Len(matchedRepos)
              confirm == \/ key = "return" /\ selectedAction = "confirm"
                         \/ key \in {"y", "Y"}
              cancel  == \/ key = "return" /\ selectedAction = "cancel"
                         \/ key \in {"n", "N"}
          IN  /\ scrollOffset' =
                    IF key = "upArrow" THEN Max(0, scrollOffset - 1)
                    ELSE IF key = "downArrow"
                      THEN Min(n - PAGE_SIZE, scrollOffset + 1)
                    ELSE IF key = "k" THEN Max(0, scrollOffset - PAGE_SIZE)
                    ELSE IF key = "j"
                      THEN Min(Max(0, n - PAGE_SIZE), scrollOffset + PAGE_SIZE)
                    ELSE scrollOffset
              /\ selectedAction' =
                    IF key \in {"leftArrow", "rightArrow"}
                    THEN (IF selectedAction = "confirm" THEN "cancel" ELSE "confirm")
                    ELSE selectedAction
              /\ phase' = IF confirm THEN handleConfirmMigration(appDryRun)
                          ELSE IF cancel THEN handleCancelMigration
                          ELSE phase
              /\ appConfirmed' = (appConfirmed \/ confirm)
              /\ appCancelled' = (appCancelled \/ cancel)
    /\ UNCHANGED <<appDryRun, inputVars, appOldUsername, appNewUsername,
                   matchedRepos, migrationResults, appExited, appMigrateCalls,
                   migVars, notAppVars>>

\* runMigration: migrate(matchedRepos, oldUsername, newUsername, {...}) is
\* called; migrate takes its first argument as its options.
StartMigration ==
    /\ ~appExited
    /\ phase = "migrating"
    /\ migPc = "idle"
    /\ migOptions' = ArrayValue(matchedRepos)
    /\ migPc' = "init"
    /\ appMigrateCalls' = appMigrateCalls + 1
    /\ UNCHANGED <<appDryRun, phase, inputVars, appOldUsername, appNewUsername,
                   matchedRepos, listVars, migrationResults, appExited,
                   appConfirmed, appCancelled, migReadOnly, migAbortedAtCall, migFs,
                   migAborted, migRepo, migRemote, repoResults, results, completed,
                   errorMessage, logVars, migProgress, migAttempted, notAppVars>>

\* runMigration after await migrate(...): the results are displayed, or the
\* catch logs the error; both end in the complete phase.
MigrationSettles ==
    /\ ~appExited
    /\ phase = "migrating"
    /\ migPc \in {"returned", "rejected"}
    /\ migrationResults' = IF migPc = "returned" THEN results ELSE migrationResults
    /\ phase' = "complete"
    /\ UNCHANGED <<appDryRun, inputVars, appOldUsername, appNewUsername,
                   matchedRepos, listVars, appExited, appHistory, migVars,
                   notAppVars>>

NextApp ==
    \/ AppInput \/ DryRunSummaryInput \/ UsernameType \/ UsernameReturn
    \/ ScanSettles \/ RepoListInput \/ StartMigration
    \/ LogInitialize \/ NextRepository
    \/ MigrationSettles

SpecApp == InitApp /\ [][NextApp]_vars

-----------------------------------------------------------------------------
(* Claims about the App.                                                   *)

\* C6: migrate is invoked, and the migrating phase entered, only when the App
\* was started in apply mode and the user confirmed the review; in dry-run
\* mode, and once the user cancelled the review, the phase is never migrating,
\* migrate is never called and no repository config is written.
C6_MigrateOnlyInApplyAfterConfirm ==
    /\ (phase = "migrating" \/ appMigrateCalls > 0 \/ migPc # "idle")
          => (~appDryRun /\ appConfirmed)
    /\ (appDryRun \/ appCancelled)
          => /\ phase # "migrating"
             /\ appMigrateCalls = 0
             /\ migAttempted = <<>>
             /\ migFs = FsOf([q \in MigPaths |-> "ok"])

\* C6 witness: started with --apply, the user confirmed and migrate was called.
C6_Witness ==
    /\ ~appDryRun
    /\ appConfirmed
    /\ phase = "migrating"
    /\ appMigrateCalls = 1

\* C7: when the App reaches the complete phase, migrate has run on exactly
\* the matched repositories of the scan, every matched remote of every one of
\* them was attempted exactly once, and each appears in the displayed results.
C7_CompleteMeansAllAttempted ==
    phase = "complete" =>
        /\ HasRepositories
        /\ migRepositories = matchedRepos
        /\ Len(migrationResults) = Len(matchedRepos)
        /\ \A i \in 1..Len(matchedRepos) :
              LET repository == matchedRepos[i]
              IN  /\ Len(migrationResults[i].results) = Len(repository.matchedRemotes)
                  /\ \A j \in 1..Len(repository.matchedRemotes) :
                        LET name == repository.matchedRemotes[j].remote.name
                        IN  /\ Count(migAttempted, <<repository.path, name>>) = 1
                            /\ migrationResults[i].results[j].remoteName = name

-----------------------------------------------------------------------------
(* Claims about cancellation of a scan.                                    *)

\* The repositories recorded so far, as a match or as an error of a read.
Recorded == Len(matchedRepositories) + Len(errors)

\* The result returned is a well-formed ScanResult of a partial walk.
WellFormedResult ==
    /\ directoriesScanned \in Nat /\ repositoriesFound \in Nat
    /\ repositoriesFound = Len(scanFound)
    /\ repositoriesFound <= directoriesScanned
    /\ \A i \in 1..Len(matchedRepositories) :
          /\ Count(scanFound, matchedRepositories[i].path) = 1
          /\ matchedRepositories[i].remotes = NodeRemotes[matchedRepositories[i].path]
          /\ Len(matchedRepositories[i].matchedRemotes) > 0
    /\ \A i \in 1..Len(errors) : errors[i].path \in DirNodes

\* The scan has returned or has a step to take. The two awaits on the
\* repository's config always settle, into the try or into its catch.
ScanGoesOn ==
    \/ scanPc = "done"
    \/ scanPc \in {"remotes", "matching"}
    \/ ENABLED (GenEnter \/ GenStat \/ GenLoop \/ Consume \/ ScanReturn)

\* What a step of a scan whose signal is set may do.
StepAfterAbort ==
    /\ scanAborted'
    /\ directoriesScanned' = directoriesScanned
    /\ skippedDirectories' = skippedDirectories
    /\ repositoriesFound' = repositoriesFound
    /\ scanFound' = scanFound
    /\ scanEvent'.type \in {"dir", "skip"} => scanEvent' = scanEvent
    /\ Len(genStack') <= Len(genStack)
    /\ scanListed' # scanListed =>
          /\ TopFrame.pc = "stat"
          /\ scanListed' = scanListed \cup {TopFrame.node}
    /\ scanPc = "iterating" => scanPc' \in {"iterating", "done"}
    /\ Recorded' <= Recorded + 1
    /\ Recorded' # Recorded =>
          /\ scanPc \in {"remotes", "matching"} /\ scanPc' = "iterating"
          /\ \/ /\ Len(matchedRepositories') = Len(matchedRepositories) + 1
                /\ matchedRepositories'[Len(matchedRepositories')].path = scanRepo
                /\ errors' = errors
             \/ /\ Len(errors') = Len(errors) + 1
                /\ errors'[Len(errors')].path = scanRepo
                /\ matchedRepositories' = matchedRepositories
    /\ scanPc' = "done" => WellFormedResult'
    /\ ScanGoesOn /\ ScanGoesOn'

\* C11: once the signal is set during a scan, no counter moves and no
\* directory is entered or skipped any more (readdir may still be called on
\* the directory whose stat was in flight); the only thing still recorded is
\* the one repository whose remotes were being read, as a match or an error,
\* after which the loop only breaks; and the scan always goes on to return a
\* well-formed partial result.
C11_AbortStopsTheWalk ==
    [][(scanAborted) => (StepAfterAbort)]_vars

\* C11 witness: a scan cancelled on its way has returned; the repository
\* that was in flight is the last one matched, and a repository the walk had
\* to count was never reached.
C11_Witness ==
    /\ scanAborted /\ ~scanAbortedAtCall
    /\ scanPc = "done"
    /\ matchedRepositories # <<>>
    /\ matchedRepositories[Len(matchedRepositories)].path = scanFound[Len(scanFound)]
    /\ \E n \in DirNodes : Eligible(n) /\ Count(scanFound, n) = 0

-----------------------------------------------------------------------------
(* Claims about cancellation of a migration.                               *)

\* The repository of the pool that lives at a path.
PoolRepository(q) == CHOOSE x \in MigPool : x.path = q

\* The config of a path is as it was when migrate was called.
ConfigUntouched(q) == migFs[q].text = createGitConfig(PoolRepository(q).remotes)

\* The setRemoteUrl calls of the first n repositories of the batch, in order.
RECURSIVE AttemptsOfPrefix(_)
AttemptsOfPrefix(n) ==
    IF n = 0 THEN <<>>
    ELSE AttemptsOfPrefix(n - 1) \o
         [j \in 1..Len(migRepositories[n].matchedRemotes) |->
             <<migRepositories[n].path, migRepositories[n].matchedRemotes[j].remote.name>>]

\* The results are those of a prefix of the batch, each with an entry for
\* every matched remote of its repository, in order.
ResultsArePrefix ==
    /\ Len(results) <= Len(migRepositories)
    /\ \A i \in 1..Len(results) :
          /\ results[i].repository = migRepositories[i]
          /\ Len(results[i].results) = Len(migRepositories[i].matchedRemotes)
          /\ \A j \in 1..Len(results[i].results) :
                results[i].results[j].remoteName =
                    migRepositories[i].matchedRemotes[j].remote.name

\* What a step of migrate may do with respect to the signal.
CancelStep ==
    \* the signal is looked at when the loop is at its head, and only there
    /\ (migPc = "repo" /\ migAborted) => migPc' = "finalize"
    /\ (migPc # "finalize" /\ migPc' = "finalize") => migPc = "repo"
    /\ (migAborted /\ migPc \in {"set", "logSuccess", "logFailure"}) =>
          \/ migPc' \in {"set", "logSuccess", "logFailure"}
          \/ migPc' = "repo" /\ Len(repoResults) = Len(CurRepository.matchedRemotes)
          \/ migPc' = "rejected" /\ logFaults' = logFaults + 1
    \* once it was seen, no config is read or written and no result is added
    /\ migPc \in {"finalize", "returned"} =>
          /\ UNCHANGED <<migFs, migAttempted, results>>
          /\ \A i \in (Len(results) + 1)..Len(migRepositories) :
                ConfigUntouched(migRepositories[i].path)
    \* and before that, none of a repository the loop has not come to
    /\ \A i \in (migRepo' + 1)..Len(migRepositories) :
          ConfigUntouched(migRepositories[i].path)'
    \* what is returned is whole
    /\ migPc' = "returned" =>
          /\ ResultsArePrefix'
          /\ migAttempted' = AttemptsOfPrefix(Len(results'))
          /\ migAborted' \/ Len(results') = Len(migRepositories)
    \* a signal set before the call
    /\ migAbortedAtCall =>
          /\ results' = <<>> /\ migAttempted' = <<>>
          /\ \A q \in MigPaths : ConfigUntouched(q)'
          /\ migPc' \in {"repo", "finalize", "returned", "rejected"}

\* C12: migrate looks at the signal only at the head of its loop over the
\* repositories: a set signal ends the loop there and nowhere else, so the
\* results returned are those of a prefix of the batch, each with an entry
\* for every matched remote; no config of a later repository is read or
\* written; and a signal set before the call gives empty results and leaves
\* every config as it was.
C12_CancelBetweenRepositories ==
    [][CancelStep]_vars

\* C12 witness: the signal was set while the first of three repositories
\* was processed; migrate returned that repository alone, with both entries
\* and its config rewritten, and left the other two alone.
C12_Witness ==
    /\ migPc = "returned" /\ migAborted /\ ~migAbortedAtCall
    /\ Len(migRepositories) = 3
    /\ Len(results) = 1
    /\ Len(results[1].results) = 2
    /\ results[1].results[1].success /\ results[1].results[2].success
    /\ ~ConfigUntouched(migRepositories[1].path)
    /\ ConfigUntouched(migRepositories[2].path)
    /\ ConfigUntouched(migRepositories[3].path)

-----------------------------------------------------------------------------
(* Specification SpecDryRun: dryRun over a list of matched repositories.   *)

\* r with the newUrl of the matched remotes at the positions in S emptied.
WithEmptyNewUrl(r, S) ==
    [r EXCEPT !.matchedRemotes =
        [j \in 1..Len(r.matchedRemotes) |->
            IF j \in S THEN [r.matchedRemotes[j] EXCEPT !.newUrl = <<>>]
            ELSE r.matchedRemotes[j]]]

\* The repositories dryRun is given: those of the pool, any newUrl emptied.
DryPool ==
    {WithEmptyNewUrl(r, S) : r \in MigPool, S \in SUBSET {1, 2}}

\* Longest list given to dryRun.
MaxDryRepos == 2

DryLists == UNION {[1..n -> DryPool] : n \in 0..MaxDryRepos}

InitDryRun ==
    /\ dryRepositories \in DryLists
    /\ \E status \in [MigPaths -> {"ok", "missing"}] : dryFs = FsOf(status)
    /\ dryRepo = 1
    /\ dryIssues = <<>>
    /\ dryResult = [kind |-> "none"]
    /\ dryPc = "loop"
    /\ CfgIdle /\ UrlIdle /\ ScanIdle /\ MigIdle /\ AppIdle /\ LgIdle /\ MatchIdle

\* Mutant of statOk: stat never fails.
statOk_always(fs, path) == TRUE

\* await stat(repository.path) does not throw.
statOk(fs, path) == fs[path].exists

\* The loop of dryRun over the matched remotes of one repository.
RECURSIVE remoteIssues(_, _)
remoteIssues(repository, j) ==
    IF j > Len(repository.matchedRemotes) THEN <<>>
    ELSE LET m == repository.matchedRemotes[j]
         IN  (IF m.newUrl = <<>>
              THEN <<<<"Invalid new URL for ", repository.path, ":", m.remote.name>>>>
              ELSE <<>>)
             \o remoteIssues(repository, j + 1)

\* One iteration of the loop of dryRun over the repositories.
DryRunRepository ==
    /\ dryPc = "loop"
    /\ dryRepo <= Len(dryRepositories)
    /\ LET repository == dryRepositories[dryRepo]
       IN  dryIssues' =
              IF ~statOk(dryFs, repository.path)
              THEN Append(dryIssues,
                          <<"Repository not accessible: ", repository.path>>)
              ELSE dryIssues \o remoteIssues(repository, 1)
    /\ dryRepo' = dryRepo + 1
    /\ UNCHANGED <<dryRepositories, dryFs, dryResult, dryPc, notDryVars>>

\* The return of dryRun.
DryRunReturn ==
    /\ dryPc = "loop"
    /\ dryRepo > Len(dryRepositories)
    /\ dryResult' = [kind |-> "object", valid |-> (Len(dryIssues) = 0),
                     issues |-> dryIssues]
    /\ dryPc' = "returned"
    /\ UNCHANGED <<dryRepositories, dryFs, dryRepo, dryIssues, notDryVars>>

NextDryRun == DryRunRepository \/ DryRunReturn

SpecDryRun == InitDryRun /\ [][NextDryRun]_vars

-----------------------------------------------------------------------------
(* Claims about dryRun.                                                    *)

\* The positions of the list whose path cannot be accessed.
Inaccessible == {i \in 1..Len(dryRepositories) : ~dryFs[dryRepositories[i].path].exists}

\* The matched remotes with an empty newUrl in the accessible repositories.
EmptyNewUrls ==
    {<<i, j>> \in (1..Len(dryRepositories)) \X (1..2) :
        /\ i \notin Inaccessible
        /\ j <= Len(dryRepositories[i].matchedRemotes)
        /\ dryRepositories[i].matchedRemotes[j].newUrl = <<>>}

\* The issues that name a path as not accessible, or a remote of a path.
IssuesAbout(issues, text, path) ==
    {k \in 1..Len(issues) : issues[k][1] = text /\ issues[k][2] = path}

\* What dryRun has to return.
DryRunAnswer ==
    /\ dryResult.kind = "object"
    /\ Len(dryResult.issues) = Cardinality(Inaccessible) + Cardinality(EmptyNewUrls)
    /\ \A q \in MigPaths :
          /\ Cardinality(IssuesAbout(dryResult.issues, "Repository not accessible: ", q))
                = Cardinality({i \in Inaccessible : dryRepositories[i].path = q})
          /\ Cardinality(IssuesAbout(dryResult.issues, "Invalid new URL for ", q))
                = Cardinality({e \in EmptyNewUrls : dryRepositories[e[1]].path = q})
    /\ \A k \in 1..Len(dryResult.issues) :
          dryResult.issues[k][1] = "Invalid new URL for " =>
              \E e \in EmptyNewUrls :
                  /\ dryRepositories[e[1]].path = dryResult.issues[k][2]
                  /\ dryRepositories[e[1]].matchedRemotes[e[2]].remote.name
                        = dryResult.issues[k][4]
    /\ dryResult.valid <=> dryResult.issues = <<>>

\* C13: dryRun writes nothing; it returns one issue per repository whose
\* path cannot be accessed, none for the remotes of such a repository, and one
\* issue per matched remote with an empty newUrl in the other repositories;
\* valid is true exactly when there is no issue.
C13_DryRunReportsAndWritesNothing ==
    [][(dryFs' = dryFs) /\ (dryPc' = "returned" => DryRunAnswer')]_vars

\* C13 witness: dryRun returned two issues for two repositories, one that
\* cannot be accessed and has a matched remote with an empty newUrl, and one
\* accessible with one of two new URLs empty.
C13_Witness ==
    /\ dryPc = "returned"
    /\ Len(dryRepositories) = 2
    /\ Cardinality(Inaccessible) = 1
    /\ \E i \in Inaccessible : dryRepositories[i].matchedRemotes[1].newUrl = <<>>
    /\ \E i \in 1..2 :
          /\ i \notin Inaccessible
          /\ Len(dryRepositories[i].matchedRemotes) = 2
          /\ dryRepositories[i].matchedRemotes[1].newUrl # <<>>
          /\ dryRepositories[i].matchedRemotes[2].newUrl = <<>>
    /\ Len(dryResult.issues) = 2
    /\ ~dryResult.valid

-----------------------------------------------------------------------------
(* Claims about what a replacement leaves alone.                           *)

\* url has one of the two github.com shapes: the SSH or the HTTPS prefix, an
\* owner of at least one character without "/", a "/", and a non-empty rest.
Recognized(url) ==
    \E prefix \in {GITHUB_SSH_PREFIX, GITHUB_HTTPS_PREFIX} :
        /\ startsWith(url, prefix)
        /\ \E k \in (Len(prefix) + 2)..(Len(url) - 1) :
              /\ url[k] = "/"
              /\ \A i \in (Len(prefix) + 1)..(k - 1) : url[i] # "/"

\* The owner of a recognized url: the text between the prefix and the first
\* "/" after it.
OwnerOf(url) ==
    LET prefix == IF startsWith(url, GITHUB_SSH_PREFIX) THEN GITHUB_SSH_PREFIX
                  ELSE GITHUB_HTTPS_PREFIX
        k == CHOOSE k \in (Len(prefix) + 2)..Len(url) :
                /\ url[k] = "/"
                /\ \A i \in (Len(prefix) + 1)..(k - 1) : url[i] # "/"
    IN  SubSeq(url, Len(prefix) + 1, k - 1)

\* C14: replaceGitHubUsername gives back its input, whatever the two user
\* names are, when the URL is not a recognized github.com SSH or HTTPS URL,
\* and when it is recognized but its owner is not oldUsername in any case.
C14_ReplaceLeavesOthersAlone ==
    (urlPc \in {"replaced", "restored"}
        /\ (~Recognized(urlIn) \/ toLowerCase(OwnerOf(urlIn)) # toLowerCase(urlOld)))
    => urlOut = urlIn

\* C14 witness: a gitlab.com URL whose owner is the old username, with a new
\* username that differs, came back as it was.
C14_Witness ==
    /\ urlPc = "replaced"
    /\ ~Recognized(urlIn)
    /\ startsWith(urlIn, <<"g","i","t","@","g","i","t","l","a","b",".","c","o","m",":">> \o urlOld \o <<"/","r">>)
    /\ toLowerCase(urlNew) # toLowerCase(urlOld)
    /\ urlOut = urlIn

-----------------------------------------------------------------------------
(* Custom patterns: a regular expression and a replacement template.       *)

\* new RegExp(from) for the patterns tried: a sequence of atoms, each a
\* literal character (escaped or not), "." for any character, or the
\* capture group "(.+)".
RECURSIVE compilePattern(_)
compilePattern(from) ==
    IF from = <<>> THEN <<>>
    ELSE IF from[1] = "\\" /\ Len(from) >= 2
      THEN <<[kind |-> "lit", ch |-> from[2]]>> \o compilePattern(Drop(from, 2))
    ELSE IF startsWith(from, <<"(", ".", "+", ")">>)
      THEN <<[kind |-> "group", ch |-> ""]>> \o compilePattern(Drop(from, 4))
    ELSE IF from[1] = "."
      THEN <<[kind |-> "any", ch |-> ""]>> \o compilePattern(Drop(from, 1))
    ELSE <<[kind |-> "lit", ch |-> from[1]]>> \o compilePattern(Drop(from, 1))

\* The atoms from the k-th on match url from position i on; a group, which
\* the patterns tried only have at their end, takes the rest of url.
RECURSIVE matchAt(_, _, _, _)
matchAt(atoms, k, url, i) ==
    IF k > Len(atoms)
      THEN [matched |-> TRUE, end |-> i - 1, group |-> Null]
    ELSE IF i > Len(url)
      THEN [matched |-> FALSE, end |-> 0, group |-> Null]
    ELSE IF atoms[k].kind = "group"
      THEN [matched |-> TRUE, end |-> Len(url), group |-> SubSeq(url, i, Len(url))]
    ELSE IF atoms[k].kind = "any" \/ atoms[k].ch = url[i]
      THEN matchAt(atoms, k + 1, url, i + 1)
    ELSE [matched |-> FALSE, end |-> 0, group |-> Null]

\* regex.exec(url): the leftmost match.
regexExec(from, url) ==
    LET atoms == compilePattern(from)
        starts == {i \in 1..(Len(url) + 1) : matchAt(atoms, 1, url, i).matched}
    IN  IF starts = {} THEN [matched |-> FALSE, index |-> 0, end |-> 0, group |-> Null]
        ELSE LET i == CHOOSE i \in starts : \A j \in starts : i <= j
                 r == matchAt(atoms, 1, url, i)
             IN  [matched |-> TRUE, index |-> i, end |-> r.end, group |-> r.group]

\* The replacement template with $1 put in.
RECURSIVE expandTemplate(_, _)
expandTemplate(to, group) ==
    IF to = <<>> THEN <<>>
    ELSE IF startsWith(to, <<"$", "1">>)
      THEN group \o expandTemplate(Drop(to, 2), group)
    ELSE <<to[1]>> \o expandTemplate(Drop(to, 1), group)

\* applyCustomPattern: a single substitution of the match, or url unchanged.
applyCustomPattern(url, from, to) ==
    LET m == regexExec(from, url)
    IN  IF ~m.matched THEN url
        ELSE SubSeq(url, 1, m.index - 1) \o expandTemplate(to, m.group)
                 \o SubSeq(url, m.end + 1, Len(url))

\* The remotes the pattern matches, each with its rewritten URL.
RECURSIVE matchRemotesWithPattern(_, _, _)
matchRemotesWithPattern(remotes, from, to) ==
    IF remotes = <<>> THEN <<>>
    ELSE (IF regexExec(from, remotes[1].url).matched
          THEN <<[remote |-> remotes[1],
                  newUrl |-> applyCustomPattern(remotes[1].url, from, to)]>>
          ELSE <<>>)
         \o matchRemotesWithPattern(Tail(remotes), from, to)

findMatchingRemotesWithPattern(repoPath, from, to) ==
    matchRemotesWithPattern(getRemoteUrls(repoPath), from, to)

\* The custom patterns tried: a literal that also occurs in a gitlab.com
\* URL, an escaped literal followed by a capture group, and a one-letter
\* literal that occurs several times in a URL.
CustomPatterns ==
    {[kind |-> "pattern", from |-> <<"f","o","u","r">>, to |-> <<"s","i","x">>],
     [kind |-> "pattern",
      from |-> <<"g","i","t","h","u","b","\\",".","c","o","m",":","a","l","i","c","e","/","(",".","+",")">>,
      to |-> <<"g","i","t","h","u","b",".","c","o","m",":","c","a","r","o","l","/","$","1">>],
     [kind |-> "pattern", from |-> <<"o">>, to |-> <<"0">>]}

-----------------------------------------------------------------------------
(* Specification SpecMatch: what a scan records for one repository found.  *)

InitMatch ==
    /\ matchRepo \in DirNodes
    /\ matchOld \in Owners
    /\ matchNew \in Owners
    /\ matchCustom \in {[kind |-> "none"]} \cup CustomPatterns
    /\ matchOut = <<>>
    /\ matchPc = "found"
    /\ CfgIdle /\ UrlIdle /\ ScanIdle /\ MigIdle /\ AppIdle /\ DryIdle /\ LgIdle

\* Mutant of selectMatchedRemotes: the custom pattern is not looked at.
selectMatchedRemotes_byUsername(customPattern, repoPath, oldUsername, newUsername) ==
    findMatchingRemotes(repoPath, oldUsername, newUsername)

\* customPattern ? findMatchingRemotesWithPattern(...) : findMatchingRemotes(...)
selectMatchedRemotes(customPattern, repoPath, oldUsername, newUsername) ==
    IF customPattern.kind # "none"
    THEN findMatchingRemotesWithPattern(repoPath, customPattern.from, customPattern.to)
    ELSE findMatchingRemotes(repoPath, oldUsername, newUsername)

\* The try block of scanForRepositories for a repository whose config reads.
MatchRepository ==
    /\ matchPc = "found"
    /\ LET remotes == getRemoteUrls(matchRepo)
           matchedRemotes == selectMatchedRemotes(matchCustom, matchRepo,
                                                  matchOld, matchNew)
       IN  matchOut' = IF hasMatches(matchedRemotes)
                       THEN <<[path |-> matchRepo, remotes |-> remotes,
                               matchedRemotes |-> matchedRemotes]>>
                       ELSE <<>>
    /\ matchPc' = "matched"
    /\ UNCHANGED <<matchRepo, matchOld, matchNew, matchCustom, notMatchVars>>

NextMatch == MatchRepository

SpecMatch == InitMatch /\ [][NextMatch]_vars

-----------------------------------------------------------------------------
(* Claims about the matching of a repository.                              *)

\* What a pattern tried means: its literal text, whether the rest of the URL
\* is captured after it, and the replacement text before the captured part.
PatternLiteral(p) ==
    LET body == IF endsWith(p.from, <<"(", ".", "+", ")">>)
                THEN SubSeq(p.from, 1, Len(p.from) - 4) ELSE p.from
    IN  SelectSeq(body, LAMBDA c : c # "\\")
PatternCaptures(p) == endsWith(p.from, <<"(", ".", "+", ")">>)
ReplacementText(p) ==
    IF PatternCaptures(p) THEN SubSeq(p.to, 1, Len(p.to) - 2) ELSE p.to

\* The positions of url at which the pattern matches.
Occurrences(url, p) ==
    {k \in 1..Len(url) :
        /\ k + Len(PatternLiteral(p)) - 1 <= Len(url)
        /\ SubSeq(url, k, k + Len(PatternLiteral(p)) - 1) = PatternLiteral(p)
        /\ PatternCaptures(p) => k + Len(PatternLiteral(p)) <= Len(url)}

\* url with the first match replaced.
Substituted(url, p) ==
    LET k == CHOOSE k \in Occurrences(url, p) : \A j \in Occurrences(url, p) : k <= j
        after == SubSeq(url, k + Len(PatternLiteral(p)), Len(url))
    IN  SubSeq(url, 1, k - 1) \o ReplacementText(p) \o after

\* C15: with a custom pattern the matched remotes of a repository are the
\* remotes whose URL the regular expression matches, in order, each with the
\* URL in which the first match, and only it, is replaced by the template
\* with $1 filled in; the repository is recorded when there is one; and no
\* choice of oldUsername and newUsername changes any of it.
C15_PatternAloneDecides ==
    (matchPc = "matched" /\ matchCustom.kind = "pattern") =>
        LET remotes == NodeRemotes[matchRepo]
            hits == SelectSeq(remotes, LAMBDA r : Occurrences(r.url, matchCustom) # {})
            expected == [i \in 1..Len(hits) |->
                            [remote |-> hits[i],
                             newUrl |-> Substituted(hits[i].url, matchCustom)]]
        IN  /\ matchOut = IF hits = <<>> THEN <<>>
                          ELSE <<[path |-> matchRepo, remotes |-> remotes,
                                  matchedRemotes |-> expected]>>
            /\ \A o \in Owners, n \in Owners :
                  selectMatchedRemotes(matchCustom, matchRepo, o, n) = expected

\* C15 witness: with old and new username both bob, the capture pattern
\* matched the SSH remote of alice and moved its repository to carol.
C15_Witness ==
    /\ matchPc = "matched"
    /\ matchCustom.kind = "pattern"
    /\ PatternCaptures(matchCustom)
    /\ matchOld = <<"b","o","b">> /\ matchNew = <<"b","o","b">>
    /\ Len(matchOut) = 1
    /\ matchOut[1].matchedRemotes[1].newUrl = <<"g","i","t","@","g","i","t","h","u","b",".","c","o","m",":","c","a","r","o","l","/","r","o","o","t",".","g","i","t">>

-----------------------------------------------------------------------------
(* Claims about configs read from disk.                                    *)

\* A line that opens a section, and the remote it names (Null when it opens
\* a section that is no remote).
IsHeader(line) == startsWith(trim(line), <<"[">>)
HeaderName(line) == remoteMatch(trim(line))

\* The remote whose section line i of lines lies in, or Null.
SectionOf(lines, i) ==
    LET heads == {j \in 1..(i - 1) : IsHeader(lines[j])}
    IN  IF heads = {} THEN Null
        ELSE HeaderName(lines[CHOOSE j \in heads : \A k \in heads : j >= k])

\* The url lines of the remote sections as parseGitConfig reads them, and
\* those among them that are the first of their section.
ParsedUrlLines(lines) ==
    {i \in 1..Len(lines) :
        /\ ~IsHeader(lines[i])
        /\ SectionOf(lines, i) # Null
        /\ urlMatch(trim(lines[i])) # Null}
FirstOfSection(lines, i) ==
    \A j \in ParsedUrlLines(lines) :
        j < i => \E h \in (j + 1)..(i - 1) : IsHeader(lines[h])

\* The sequence of the elements of a set of line numbers, ascending.
RECURSIVE Ascending(_)
Ascending(S) ==
    IF S = {} THEN <<>>
    ELSE LET m == CHOOSE x \in S : \A y \in S : x <= y
         IN  <<m>> \o Ascending(S \ {m})

\* C16: parseGitConfig reports one remote for each remote section that has a
\* url line, with the URL of the first url line of the section; later url
\* lines of the same section are not reported.
C16_FirstUrlOfSectionOnly ==
    cfgPc = "parsed" =>
        LET lines == split(cfgText, "\n")
            firsts == Ascending({i \in ParsedUrlLines(lines) : FirstOfSection(lines, i)})
        IN  cfgParsed = [k \in 1..Len(firsts) |->
                            [name |-> SectionOf(lines, firsts[k]),
                             url  |-> trim(urlMatch(trim(lines[firsts[k]])))]]

\* parseGitConfig reports every url line of every remote section.
ParseReportsEveryUrlLine ==
    cfgPc = "parsed" =>
        LET lines == split(cfgText, "\n")
            all == Ascending(ParsedUrlLines(lines))
        IN  cfgParsed = [k \in 1..Len(all) |->
                            [name |-> SectionOf(lines, all[k]),
                             url  |-> trim(urlMatch(trim(lines[all[k]])))]]

\* The lines updateRemoteInConfig may rewrite for a remote name: the url
\* lines, as its expression reads them, inside a section of that name.
TargetLines(lines, name) ==
    {i \in 1..Len(lines) :
        /\ ~IsHeader(lines[i])
        /\ SectionOf(lines, i) = name
        /\ urlLineMatch(lines[i]).matched}

\* C17: updateRemoteInConfig(content, N, u) returns as many lines as it was
\* given; the first url line inside a section whose header names N becomes
\* its own leading whitespace followed by "url = u", and every other line is
\* the same character for character; without such a line the result is the
\* input.
C17_RewriteTouchesOneLine ==
    cfgPc = "rewritten" =>
        LET lines == split(cfgText, "\n")
            out == split(cfgOut, "\n")
            targets == TargetLines(lines, cfgName)
            first == CHOOSE i \in targets : \A j \in targets : i <= j
        IN  /\ Len(out) = Len(lines)
            /\ \A i \in 1..Len(lines) :
                  out[i] = IF targets # {} /\ i = first
                           THEN SubSeq(lines[i], 1, LeadingWs(lines[i]))
                                    \o <<"u","r","l"," ","="," ">> \o cfgUrl
                           ELSE lines[i]
            /\ targets = {} => cfgOut = cfgText

\* C17 witness: the section of the remote rewritten has two url lines, of
\* which the first changed and the second did not, and a section of another
\* name has a url line too.
C17_Witness ==
    /\ cfgPc = "rewritten"
    /\ LET lines == split(cfgText, "\n")
           out == split(cfgOut, "\n")
       IN  /\ Cardinality(TargetLines(lines, cfgName)) = 2
           /\ \E i \in TargetLines(lines, cfgName) : out[i] # lines[i]
           /\ \E i \in TargetLines(lines, cfgName) : out[i] = lines[i]
           /\ \E n \in RemoteNames \ {cfgName} : TargetLines(lines, n) # {}

\* C18: every matched remote that username-based matching produces has a
\* newUrl that differs from the URL of the remote; a remote for which the
\* substitution changes nothing is not reported as a match.
C18_MatchesChangeTheUrl ==
    (matchPc = "matched" /\ matchCustom.kind = "none") =>
        \A i \in 1..Len(matchOut) :
            \A j \in 1..Len(matchOut[i].matchedRemotes) :
                matchOut[i].matchedRemotes[j].newUrl
                    # matchOut[i].matchedRemotes[j].remote.url

-----------------------------------------------------------------------------
(* Specification SpecLogPath: the log files of MigrationLogger objects     *)
(* constructed while the clock runs.                                       *)

\* Latest time on the clock, in milliseconds after 2026-11-01T22:41:00.000Z.
MaxNowMs == 2000

\* What the clock advances by between two events.
TickSteps == {400, 600}

\* Most loggers constructed.
MaxLoggers == 3

Digit(n) == <<"0", "1", "2", "3", "4", "5", "6", "7", "8", "9">>[n + 1]

\* Date.prototype.toISOString for a time of that minute.
toISOString(ms) ==
    LET sec == (ms \div 1000) % 60
        mil == ms % 1000
    IN  <<"2","0","2","6","-","1","1","-","0","1","T","2","2",":","4","1",":">>
        \o <<Digit(sec \div 10), Digit(sec % 10), ".">>
        \o <<Digit(mil \div 100), Digit((mil \div 10) % 10), Digit(mil % 10), "Z">>

\* String.prototype.replace(/[:.]/g, '-')
replaceColonsAndDots(s) ==
    [i \in 1..Len(s) |-> IF s[i] \in {":", "."} THEN "-" ELSE s[i]]

\* String.prototype.replace('T', '_'): the first occurrence only.
replaceFirstT(s) ==
    LET idx == {i \in 1..Len(s) : s[i] = "T"}
    IN  IF idx = {} THEN s
        ELSE [i \in 1..Len(s) |->
                 IF i = (CHOOSE k \in idx : \A j \in idx : k <= j) THEN "_" ELSE s[i]]

\* String.prototype.slice(0, 19)
timestampSlice(s) == SubSeq(s, 1, Min(Len(s), 19))

generateLogFilename(now) ==
    <<"m","i","g","r","a","t","i","o","n","-">>
        \o timestampSlice(replaceFirstT(replaceColonsAndDots(toISOString(now))))
        \o <<".","l","o","g">>

\* The constructor of MigrationLogger, at time now.
MigrationLogger(now) ==
    [startedAt |-> now,
     logPath |-> <<"~","/",".","g","i","t","h","u","b","-","u","s","e","r","n","a","m","e","-","m","i","g","r","a","t","o","r","/","l","o","g","s","/">> \o generateLogFilename(now),
     initialized |-> FALSE]

\* writeFile(path, content): the file is created or replaced.
writeFile(dir, path, content) ==
    {f \in dir : f.path # path} \cup {[path |-> path, content |-> content]}

InitLogPath ==
    /\ nowMs = 0
    /\ loggers = <<>>
    /\ logDir = {}
    /\ CfgIdle /\ UrlIdle /\ ScanIdle /\ MigIdle /\ AppIdle /\ DryIdle /\ MatchIdle

\* Time passes.
Tick ==
    /\ \E d \in TickSteps : nowMs + d <= MaxNowMs /\ nowMs' = nowMs + d
    /\ UNCHANGED <<loggers, logDir, notLgVars>>

\* createLogger(...) of a migration run.
CreateLogger ==
    /\ Len(loggers) < MaxLoggers
    /\ loggers' = Append(loggers, MigrationLogger(nowMs))
    /\ UNCHANGED <<nowMs, logDir, notLgVars>>

\* logger.initialize() of a run: the header is written to the log path.
InitializeLogger ==
    /\ \E i \in 1..Len(loggers) :
          /\ ~loggers[i].initialized
          /\ logDir' = writeFile(logDir, loggers[i].logPath,
                                 <<[block |-> "header",
                                    startedAt |-> loggers[i].startedAt]>>)
          /\ loggers' = [loggers EXCEPT ![i].initialized = TRUE]
    /\ UNCHANGED <<nowMs, notLgVars>>

NextLogPath == Tick \/ CreateLogger \/ InitializeLogger

SpecLogPath == InitLogPath /\ [][NextLogPath]_vars

\* C19: no two MigrationLogger objects have the same log path, so the header
\* one run writes never replaces the log file of another run.
C19_LogPathsDistinct ==
    /\ \A i, j \in 1..Len(loggers) : i # j => loggers[i].logPath # loggers[j].logPath
    /\ \A i \in 1..Len(loggers) :
          loggers[i].initialized =>
              \E f \in logDir :
                  /\ f.path = loggers[i].logPath
                  /\ f.content[1].startedAt = loggers[i].startedAt

-----------------------------------------------------------------------------
(* Claims about the audit log of a migration.                              *)

\* A block of the log file is the header, the footer, or an entry.
IsBlock(b, kind) == "block" \in DOMAIN b /\ b.block = kind
IsEntryOf(b, attempt) ==
    /\ "repositoryPath" \in DOMAIN b
    /\ b.repositoryPath = attempt[1]
    /\ b.remoteName = attempt[2]

\* The log file is the header, one entry per setRemoteUrl call in the order
\* of the calls, and the footer; log.entries holds the same entries.
LogMirrorsAttempts ==
    /\ Len(logFile) = Len(migAttempted) + 2
    /\ IsBlock(logFile[1], "header")
    /\ IsBlock(logFile[Len(logFile)], "footer")
    /\ \A k \in 1..Len(migAttempted) : IsEntryOf(logFile[k + 1], migAttempted[k])
    /\ Len(logEntries) = Len(migAttempted)
    /\ \A k \in 1..Len(migAttempted) : logEntries[k] = logFile[k + 1]

\* C20: when migrate has returned, the log file is the header, exactly one
\* entry per attempted remote in the order of the attempts (repositories in
\* input order, remotes in matched order), and the footer as its last block;
\* the entries in memory are the same, in the same order.
C20_LogInOrderOfAttempts ==
    migPc = "returned" => LogMirrorsAttempts

\* The same, for the runs in which no write to the log file failed.
LogInOrderWithoutWriteFaults ==
    (migPc = "returned" /\ logFaults = 0) => LogMirrorsAttempts

\* In every returned run the file itself has one entry per attempt, in order.
LogFileInOrder ==
    migPc = "returned" =>
        /\ Len(logFile) = Len(migAttempted) + 2
        /\ IsBlock(logFile[1], "header")
        /\ IsBlock(logFile[Len(logFile)], "footer")
        /\ \A k \in 1..Len(migAttempted) : IsEntryOf(logFile[k + 1], migAttempted[k])

-----------------------------------------------------------------------------
(* Claims about what a replacement keeps.                                  *)

\* The prefix of a recognized url, and the text after the "/" that ends its
\* owner: the repository segment with any nested segments and any ".git".
PrefixOf(url) ==
    IF startsWith(url, GITHUB_SSH_PREFIX) THEN GITHUB_SSH_PREFIX ELSE GITHUB_HTTPS_PREFIX

RestOf(url) == Drop(url, Len(PrefixOf(url)) + Len(OwnerOf(url)) + 1)

\* url with its owner segment replaced by newUsername and nothing else changed.
WithOwner(url, newUsername) ==
    PrefixOf(url) \o newUsername \o <<"/">> \o RestOf(url)

\* C21: for every recognized URL whose owner is oldUsername in any case,
\* replaceGitHubUsername returns the input with only the owner segment
\* replaced: prefix, repository segment (nested, ".git", ".git.git") and the
\* presence or absence of a trailing ".git" are those of the input.
C21_ReplaceKeepsAllButOwner ==
    (/\ urlPc \in {"replaced", "restored"}
     /\ Recognized(urlIn)
     /\ toLowerCase(OwnerOf(urlIn)) = toLowerCase(urlOld))
    => urlOut = WithOwner(urlIn, urlNew)

\* The same for every URL whose repository segment is not ".git" alone.
ReplaceKeepsAllButOwnerUnlessBareGit ==
    (/\ urlPc \in {"replaced", "restored"}
     /\ Recognized(urlIn)
     /\ toLowerCase(OwnerOf(urlIn)) = toLowerCase(urlOld)
     /\ RestOf(urlIn) # <<".","g","i","t">>)
    => urlOut = WithOwner(urlIn, urlNew)

\* A substitution happened on a URL with nested segments and one ending in
\* ".git.git", and both kept everything but the owner.
ReplaceKeepsNestedWitness ==
    /\ urlPc = "replaced"
    /\ Recognized(urlIn)
    /\ toLowerCase(OwnerOf(urlIn)) = toLowerCase(urlOld)
    /\ RestOf(urlIn) = <<"r",".","g","i","t",".","g","i","t">>
    /\ urlNew # OwnerOf(urlIn)
    /\ urlOut = WithOwner(urlIn, urlNew)

\* The url lines that lie in an open remote section: not a header, after a
\* header, the last header before them naming a remote.
OpenSectionUrlLines(lines) ==
    {i \in 1..Len(lines) :
        /\ urlMatch(trim(lines[i])) # Null
        /\ ~IsHeader(lines[i])
        /\ \E h \in 1..(i - 1) :
              /\ IsHeader(lines[h])
              /\ HeaderName(lines[h]) # Null
              /\ \A j \in (h + 1)..(i - 1) : ~IsHeader(lines[j])}

\* The last header before line i (0 when there is none).
LastHeader(lines, i) ==
    LET heads == {j \in 1..(i - 1) : IsHeader(lines[j])}
    IN  IF heads = {} THEN 0 ELSE CHOOSE j \in heads : \A k \in heads : j >= k

\* C22: parseGitConfig reports exactly the url lines that lie in an open
\* remote section, each under the name of the most recent remote header, in
\* the order of the file; a url line before the first remote header, or after
\* a line starting with "[" that is no remote header, is not reported.
C22_ParseScopesUrlsToRemoteSections ==
    cfgPc = "parsed" =>
        LET lines == split(cfgText, "\n")
            order == Ascending(OpenSectionUrlLines(lines))
        IN  /\ Len(cfgParsed) = Len(order)
            /\ \A k \in 1..Len(order) :
                  /\ cfgParsed[k].name = HeaderName(lines[LastHeader(lines, order[k])])
                  /\ cfgParsed[k].url = trim(urlMatch(trim(lines[order[k]])))
            /\ \A i \in 1..Len(lines) :
                  (LastHeader(lines, i) = 0
                     \/ HeaderName(lines[LastHeader(lines, i)]) = Null)
                  => i \notin {order[k] : k \in 1..Len(order)}

\* C22 witness: a remote section whose url line is reported is followed by a
\* section that is no remote and has a url line of its own; one remote is
\* reported.
C22_Witness ==
    /\ cfgPc = "parsed"
    /\ LET lines == split(cfgText, "\n")
       IN  /\ Len(lines) = 4
           /\ HeaderName(lines[1]) = <<"u","p">>
           /\ urlMatch(trim(lines[2])) # Null
           /\ IsHeader(lines[3]) /\ HeaderName(lines[3]) = Null
           /\ urlMatch(trim(lines[4])) # Null
    /\ Len(cfgParsed) = 1
    /\ cfgParsed[1].name = <<"u","p">>

\* A url line stands before the first header and is not reported, while the
\* url line of the remote section after it is.
UrlBeforeFirstHeaderWitness ==
    /\ cfgPc = "parsed"
    /\ LET lines == split(cfgText, "\n")
       IN  /\ Len(lines) = 3
           /\ urlMatch(trim(lines[1])) # Null
           /\ HeaderName(lines[2]) = <<"u","p">>
           /\ urlMatch(trim(lines[3])) # Null
    /\ Len(cfgParsed) = 1
    /\ cfgParsed[1].url # <<"/","t","m","p","/","z">>

-----------------------------------------------------------------------------
(* Claims about how far and where the walk goes.                           *)

\* Depth and enclosing directories of every directory of the tree.
DepthOf == [n \in DirNodes |-> Depth(n)]
EnclosingOf == [n \in DirNodes |-> Enclosing(n)]

\* The directories deeper than maxDepth below the scan root.
BeyondMaxDepth == {n \in DirNodes : DepthOf[n] > scanMaxDepth}

\* The paths a sequence of records with a path field names.
PathsOf(seq) == {seq[i].path : i \in 1..Len(seq)}

\* The directories scanDirectory has entered past its two early returns and
\* not left yet.
Entered == {genStack[i].node : i \in {j \in 1..Len(genStack) : genStack[j].pc # "enter"}}

\* C23: at every moment of a scan, no directory deeper than maxDepth (root at
\* depth 0) is entered past the depth test, listed, counted as a directory,
\* reported as a repository, matched or named by an error; and a scan that
\* ran to its end without cancellation and listing error has found every
\* repository at depth exactly maxDepth that nothing on its path rules out.
C23_NothingBeyondMaxDepth ==
    /\ \A i \in 1..Len(genStack) : genStack[i].depth = DepthOf[genStack[i].node]
    /\ Entered \cap BeyondMaxDepth = {}
    /\ scanListed \cap BeyondMaxDepth = {}
    /\ \A i \in 1..Len(scanFound) : scanFound[i] \notin BeyondMaxDepth
    /\ PathsOf(matchedRepositories) \cap BeyondMaxDepth = {}
    /\ PathsOf(errors) \cap BeyondMaxDepth = {}
    /\ scanEvent.type \in {"repo", "error"} => scanEvent.path \notin BeyondMaxDepth
    /\ directoriesScanned <= Cardinality(DirNodes \ BeyondMaxDepth)
    /\ repositoriesFound <= Cardinality({n \in DirNodes \ BeyondMaxDepth : fsGit[n]})
    /\ (scanPc = "done" /\ ~scanAborted /\ scanListed \cap fsUnlistable = {}) =>
          \A n \in DirNodes :
              (DepthOf[n] = scanMaxDepth /\ Eligible(n)) => Count(scanFound, n) = 1

\* C23 witness: with maxDepth 1 a scan ran to its end, listed the directory
\* at depth 1 that holds a repository at depth 2 without reporting it, and
\* found the repository at depth 1.
C23_Witness ==
    /\ scanPc = "done" /\ ~scanAborted
    /\ scanMaxDepth = 1
    /\ ~fsGit[0] /\ ~fsGit[1] /\ fsGit[2] /\ fsGit[4]
    /\ 1 \in scanListed
    /\ scanFound = <<4>>
    /\ directoriesScanned = 3
    /\ errors = <<>>

\* A scan without maxDepth option found the repository at depth 3.
DefaultDepthWitness ==
    /\ scanPc = "done" /\ ~scanAborted
    /\ scanMaxDepth = DEFAULT_MAX_DEPTH
    /\ scanFound = <<3, 4>>

\* The directories that lie beneath a repository root.
InsideRepository == {n \in DirNodes : \E a \in EnclosingOf[n] : fsGit[a]}

\* The directories scanDirectory has been called for and not left yet.
OnStack == {genStack[i].node : i \in 1..Len(genStack)}

\* C24: at every moment of a scan, a repository root is never listed, and a
\* directory beneath a repository root is never entered by scanDirectory,
\* never listed, never counted in repositoriesFound, never matched and never
\* named by an event or an error.
C24_NothingBeneathRepository ==
    /\ \A n \in DirNodes : fsGit[n] => n \notin scanListed
    /\ OnStack \cap InsideRepository = {}
    /\ scanListed \cap InsideRepository = {}
    /\ \A i \in 1..Len(scanFound) : scanFound[i] \notin InsideRepository
    /\ repositoriesFound = Len(scanFound)
    /\ PathsOf(matchedRepositories) \cap InsideRepository = {}
    /\ PathsOf(errors) \cap InsideRepository = {}
    /\ scanEvent.type \in {"repo", "error"} => scanEvent.path \notin InsideRepository

\* C24 witness: a scan deep enough for the whole tree ran to its end over a
\* repository at depth 1 whose working tree holds repositories at depths 2
\* and 3 with remotes of the old owner; only the outer one was found and
\* matched.
C24_Witness ==
    /\ scanPc = "done" /\ ~scanAborted /\ errors = <<>>
    /\ scanMaxDepth >= 3
    /\ ~fsGit[0] /\ fsGit[1] /\ fsGit[2] /\ fsGit[3] /\ ~fsGit[4]
    /\ HasRemoteOfOld(2)
    /\ scanFound = <<1>>
    /\ repositoriesFound = 1
    /\ PathsOf(matchedRepositories) = {1}
    /\ directoriesScanned = 3

-----------------------------------------------------------------------------
(* Claims about the errors of a scan.                                      *)

\* The directories readdir failed on, and the directories beneath them.
FailedToList == scanListed \cap fsUnlistable
BeneathFailed == {n \in DirNodes : EnclosingOf[n] \cap fsUnlistable # {}}

\* How many errors name the path n.
ErrorsAbout(n) == Cardinality({i \in 1..Len(errors) : errors[i].path = n})

\* C25: a directory is named by at most one scan error, and only a directory
\* whose listing or config read failed is; no directory beneath one that
\* failed to list is entered.  At the return of a scan that was not
\* cancelled, every directory that failed to list is named by exactly one
\* error, every repository that nothing on its path rules out and that does
\* not lie beneath such a directory was found once, and a root that cannot be
\* listed and holds no .git gives one error and no match.
C25_ListFailureCostsOneBranch ==
    /\ \A n \in DirNodes : ErrorsAbout(n) <= 1
    /\ PathsOf(errors) \subseteq FailedToList \cup fsUnreadable
    /\ OnStack \cap BeneathFailed = {}
    /\ \A i \in 1..Len(scanFound) : scanFound[i] \notin BeneathFailed
    /\ (scanPc = "done" /\ ~scanAborted) =>
          /\ \A n \in FailedToList : ErrorsAbout(n) = 1
          /\ Len(errors) = Cardinality(FailedToList)
                             + Cardinality({n \in fsUnreadable : Count(scanFound, n) > 0})
          /\ \A n \in DirNodes \ BeneathFailed : Eligible(n) => Count(scanFound, n) = 1
          /\ (ScanRoot \in fsUnlistable /\ ~fsGit[ScanRoot]) =>
                /\ Len(errors) = 1 /\ errors[1].path = ScanRoot
                /\ matchedRepositories = <<>>
                /\ directoriesScanned = 1

\* C25 witness: the first entry of the root failed to list, which gave one
\* error with its path; the repository beneath it was not found and the
\* repository in the sibling listed after it was found and matched.
C25_Witness ==
    /\ scanPc = "done" /\ ~scanAborted
    /\ fsUnlistable = {1} /\ 1 \in scanListed
    /\ ~fsGit[0] /\ ~fsGit[1] /\ fsGit[2] /\ fsGit[4]
    /\ scanMaxDepth >= 2
    /\ Len(errors) = 1 /\ errors[1].path = 1
    /\ scanFound = <<4>>
    /\ PathsOf(matchedRepositories) = {4}

\* A scan of a root that cannot be listed and holds no .git has returned.
UnlistableRootWitness ==
    /\ scanPc = "done" /\ ~scanAborted
    /\ ScanRoot \in fsUnlistable /\ ~fsGit[ScanRoot]
    /\ Len(errors) = 1
    /\ matchedRepositories = <<>>

\* The repositories found whose config could not be read when the scan read
\* it, the one still being read left out.
FoundUnreadable ==
    {n \in fsUnreadable :
        /\ Count(scanFound, n) > 0
        /\ ~(scanPc \in {"remotes", "matching"} /\ scanRepo = n)}

\* C26: a repository whose config cannot be read, at the first or at the
\* second read the scan makes, is counted in repositoriesFound, is named by
\* exactly one error, is not in matchedRepositories, and the scan goes on:
\* a scan that was not cancelled still finds every repository the walk has to
\* count.  A direct call of getRemoteUrls raises exactly when the config
\* cannot be read, and otherwise returns the remotes of the config.
C26_UnreadableConfigIsOneError ==
    /\ repositoriesFound = Len(scanFound)
    /\ \A n \in FoundUnreadable :
          /\ ErrorsAbout(n) = 1
          /\ n \notin PathsOf(matchedRepositories)
    /\ \A n \in DirNodes : ErrorsAbout(n) <= 1
    /\ (scanPc = "done" /\ ~scanAborted) =>
          \A n \in DirNodes \ BeneathFailed : Eligible(n) => Count(scanFound, n) = 1
    /\ directRead.kind # "none" =>
          /\ scanPc = "done"
          /\ directRead.kind = "threw" <=>
                (directRead.path \in fsUnreadable \/ ~fsGit[directRead.path])
          /\ directRead.kind = "returned" =>
                directRead.remotes = NodeRemotes[directRead.path]

\* C26 witness: the first repository found has a config that cannot be read
\* and the one found after it is matched; the scan returned both counted, one
\* error naming the first, and a direct getRemoteUrls on the first raised.
C26_Witness ==
    /\ scanPc = "done" /\ ~scanAborted
    /\ ~fsGit[0] /\ fsGit[1] /\ fsGit[4]
    /\ fsUnreadable = {1}
    /\ scanRemotes = NodeRemotes[4]
    /\ scanFound = <<1, 4>> /\ repositoriesFound = 2
    /\ Len(errors) = 1 /\ errors[1].path = 1
    /\ PathsOf(matchedRepositories) = {4}
    /\ directRead.kind = "threw" /\ directRead.path = 1

\* The config of a repository was read once and could not be read the second
\* time; the repository is an error and no match.
VanishedBetweenReadsWitness ==
    /\ scanPc = "iterating" /\ ~scanAborted
    /\ scanRepo = 1 /\ scanRemotes = NodeRemotes[1]
    /\ 1 \in fsUnreadable
    /\ Len(errors) = 1 /\ errors[1].path = 1
    /\ matchedRepositories = <<>>

-----------------------------------------------------------------------------
(* Claims about the progress reports of a scan.                            *)

\* The positions of the final reports (those whose currentPath is '').
FinalReports == {i \in 1..Len(progressReports) : progressReports[i].currentPath = <<>>}

\* C27: without a sink nothing is reported.  With a sink, a scan that has not
\* returned has given no final report, and a scan that has returned, whether
\* it completed, was cancelled or failed on its root, has given exactly one,
\* as the last of its reports and whatever the time since the report before
\* it, with the totals of the returned result.
C27_OneFinalReport ==
    /\ ~scanOnProgress => progressReports = <<>>
    /\ scanPc # "done" => FinalReports = {}
    /\ (scanPc = "done" /\ scanOnProgress) =>
          /\ FinalReports = {Len(progressReports)}
          /\ LET final == progressReports[Len(progressReports)]
             IN  /\ final.directoriesScanned = directoriesScanned
                 /\ final.skippedDirectories = skippedDirectories
                 /\ final.repositoriesFound = repositoriesFound
                 /\ final.matchedCount = Len(matchedRepositories)

\* C27 witness: a scan with a sink that found two repositories has returned;
\* its final report came 50 ms after the report before it and carries the
\* totals of the result.
C27_Witness ==
    /\ scanPc = "done" /\ scanOnProgress /\ ~scanAborted
    /\ repositoriesFound = 2
    /\ Len(progressReports) = 2
    /\ progressReports[2].currentPath = <<>>
    /\ progressReports[2].at = progressReports[1].at + 50
    /\ progressReports[2].repositoriesFound = 2
    /\ progressReports[2].matchedCount = Len(matchedRepositories)
    /\ Len(matchedRepositories) = 1

\* A scan cancelled on its way, and a scan whose root could not be listed,
\* have returned after a final report.
CancelledScanReportsWitness ==
    /\ scanPc = "done" /\ scanOnProgress
    /\ scanAborted /\ ~scanAbortedAtCall
    /\ repositoriesFound = 1
    /\ FinalReports = {2}

FailedRootReportsWitness ==
    /\ scanPc = "done" /\ scanOnProgress /\ ~scanAborted
    /\ ScanRoot \in fsUnlistable /\ ~fsGit[ScanRoot]
    /\ Len(errors) = 1
    /\ FinalReports = {1}

\* The reports that are not the final one, in order.
RunningReports == SelectSeq(progressReports, LAMBDA r : r.currentPath # <<>>)

\* C28: two consecutive reports other than the final one are at least
\* progressThrottleMs apart, whatever was counted in between; each report
\* other than the final one is given when a repository is found and names it.
C28_ReportsThrottled ==
    /\ \A i \in 1..(Len(RunningReports) - 1) :
          RunningReports[i + 1].at - RunningReports[i].at >= progressThrottleMs
    /\ Len(RunningReports) > 0 =>
          lastProgressUpdate = RunningReports[Len(RunningReports)].at
    /\ \A i \in 1..Len(RunningReports) :
          /\ RunningReports[i].repositoriesFound >= 1
          /\ RunningReports[i].currentPath
                = <<scanFound[RunningReports[i].repositoriesFound]>>

\* C28 witness: two repositories were found 50 ms apart, with directories
\* counted in between, and only the first was reported.
C28_Witness ==
    /\ scanOnProgress /\ ~scanAborted
    /\ scanPc = "remotes"
    /\ repositoriesFound = 2
    /\ nowMs = lastProgressUpdate + 50
    /\ Len(progressReports) = 1
    /\ progressReports[1].repositoriesFound = 1
    /\ directoriesScanned > progressReports[1].directoriesScanned

\* Two repositories were found exactly 100 ms apart and both were reported.
SecondReportWitness ==
    /\ scanOnProgress
    /\ Len(RunningReports) = 2
    /\ RunningReports[2].at = RunningReports[1].at + 100

-----------------------------------------------------------------------------
(* Claims about the counts of a scan.                                      *)

\* C29: at every moment of a scan every matched repository has at least one
\* matched remote, and matchedCount <= repositoriesFound <= directoriesScanned
\* holds of the running counts and of every progress report given.
C29_CountsOrdered ==
    /\ \A i \in 1..Len(matchedRepositories) :
          Len(matchedRepositories[i].matchedRemotes) >= 1
    /\ Len(matchedRepositories) <= repositoriesFound
    /\ repositoriesFound <= directoriesScanned
    /\ \A i \in 1..Len(progressReports) :
          /\ progressReports[i].matchedCount <= progressReports[i].repositoriesFound
          /\ progressReports[i].repositoriesFound
                <= progressReports[i].directoriesScanned

\* C29 witness: a scan returned having counted five directories, found two
\* repositories, one of them without a remote of the old owner, and matched
\* the other; the report given when the first was found had no match yet.
C29_Witness ==
    /\ scanPc = "done" /\ ~scanAborted /\ errors = <<>>
    /\ directoriesScanned = 5
    /\ scanFound = <<3, 4>>
    /\ ~HasRemoteOfOld(3)
    /\ PathsOf(matchedRepositories) = {4}
    /\ Len(progressReports) = 2
    /\ progressReports[1].matchedCount = 0
    /\ progressReports[1].repositoriesFound = 1
    /\ progressReports[2].matchedCount = 1

-----------------------------------------------------------------------------
(* Specification SpecExclude: scans with caller-supplied exclude globs.    *)

\* Names of entry 1 and exclude globs tried.
GlobNames ==
    {<<"t","e","m","p","-","b","a","c","k","u","p">>, <<"T","E","M","P">>, <<"m","y","t","e","m","p">>, <<"t","m","p",".","1">>, <<"t","m","p","x","1">>}
GlobPatterns ==
    {<<"t","e","m","p","*">>, <<"T","?","M","P">>, <<"t","m","p",".","1">>, <<"*">>, <<"*","*","u","p">>, <<"o","l","d","*">>}

\* The excludePatterns options tried: one glob, or two.
GlobLists ==
    {<<p>> : p \in GlobPatterns} \cup {<<<<"o","l","d","*">>, p>> : p \in {<<"t","e","m","p","*">>, <<"t","m","p",".","1">>}}

InitExclude ==
    /\ \E top \in GlobNames : fsName = NamesOf(top, <<"s","r","c">>)
    /\ fsGit \in [DirNodes -> BOOLEAN]
    /\ fsUnlistable = {} /\ fsUnreadable = {}
    /\ fsRewritten = {}
    /\ scanOld = <<"a","l","i","c","e">>
    /\ scanNew = <<"c","a","r","o","l">>
    /\ scanMaxDepth = maxDepthOf([given |-> FALSE, value |-> 0])
    /\ scanExclude \in GlobLists
    /\ scanAborted = FALSE
    /\ scanAbortedAtCall = FALSE
    /\ scanOnProgress = FALSE
    /\ lastProgressUpdate = 0 /\ progressReports = <<>>
    /\ directRead = [kind |-> "none"]
    /\ genStack = <<[node |-> ScanRoot, depth |-> 0, pc |-> "enter", idx |-> 0]>>
    /\ scanEvent = NoEvent
    /\ scanPc = "iterating"
    /\ scanRepo = 0 /\ scanRemotes = <<>>
    /\ directoriesScanned = 0 /\ skippedDirectories = 0 /\ repositoriesFound = 0
    /\ matchedRepositories = <<>> /\ errors = <<>>
    /\ scanListed = {} /\ scanFound = <<>>
    /\ nowMs = ScanStartMs /\ loggers = <<>> /\ logDir = {}
    /\ CfgIdle /\ UrlIdle /\ MigIdle /\ AppIdle /\ DryIdle /\ MatchIdle

NextExclude ==
    \/ GenEnter \/ GenStat \/ GenLoop
    \/ Consume \/ ReadRemotes \/ MatchRemotes \/ ScanReturn

SpecExclude == InitExclude /\ [][NextExclude]_vars

-----------------------------------------------------------------------------
(* Claims about exclude globs.                                             *)

\* Whether the first i characters of a glob match the first j characters of
\* a name: "*" stands for any run of characters other than "/" ("**" for any
\* run), "?" for one character, any other character for itself in either
\* case.
RECURSIVE GlobMatchesUpTo(_, _, _, _)
GlobMatchesUpTo(glob, i, name, j) ==
    IF i = 0 THEN j = 0
    ELSE IF glob[i] = "*" /\ i >= 2 /\ glob[i - 1] = "*"
      THEN \E k \in 0..j : GlobMatchesUpTo(glob, i - 2, name, k)
    ELSE IF glob[i] = "*"
      THEN \E k \in 0..j :
              /\ \A m \in (k + 1)..j : name[m] # "/"
              /\ GlobMatchesUpTo(glob, i - 1, name, k)
    ELSE IF glob[i] = "?"
      THEN j >= 1 /\ GlobMatchesUpTo(glob, i - 1, name, j - 1)
    ELSE /\ j >= 1
         /\ toLowerCase(<<name[j]>>) = toLowerCase(<<glob[i]>>)
         /\ GlobMatchesUpTo(glob, i - 1, name, j - 1)

\* The glob matches the whole name.
GlobMatches(glob, name) == GlobMatchesUpTo(glob, Len(glob), name, Len(name))

ParentOf == [n \in (DirNodes \cup FileNodes) \ {ScanRoot} |-> Parent(n)]
ChildDirs == DirNodes \ {ScanRoot}

\* The child directories an exclude glob matches, those another rule skips,
\* and those the loop of a listed parent has come to.
GlobExcluded ==
    {n \in ChildDirs : \E i \in 1..Len(scanExclude) : GlobMatches(scanExclude[i], fsName[n])}
OtherwiseSkipped ==
    {n \in ChildDirs : startsWith(fsName[n], <<".">>) \/ shouldIgnoreSegment(fsName[n])}
Reached == {n \in ChildDirs : ParentOf[n] \in scanListed}

\* The directories scanDirectory went into: listed, or found as repository.
WentInto == scanListed \cup {scanFound[i] : i \in 1..Len(scanFound)}

\* C30: a child directory whose name an exclude glob matches as a whole,
\* ignoring case, is never entered, and nothing beneath it is listed, found
\* or matched.  When the scan has returned, each child directory the walk
\* came to was pruned exactly when a glob matches its name or another rule
\* skips it, and skippedDirectories counts exactly the pruned ones.
C30_ExcludeGlobPrunes ==
    /\ OnStack \cap GlobExcluded = {}
    /\ WentInto \cap GlobExcluded = {}
    /\ \A m \in DirNodes :
          EnclosingOf[m] \cap GlobExcluded # {} =>
              /\ m \notin WentInto /\ m \notin OnStack
              /\ m \notin PathsOf(matchedRepositories)
    /\ scanPc = "done" =>
          /\ \A n \in Reached :
                n \notin WentInto <=> n \in GlobExcluded \cup OtherwiseSkipped
          /\ skippedDirectories
                = Cardinality(Reached \cap (GlobExcluded \cup OtherwiseSkipped))

\* C30 witness: with the glob 'temp*' the directory TEMP, which holds a
\* repository with a remote of the old owner, was pruned and counted as
\* skipped; the repository next to it was found and matched.
C30_Witness ==
    /\ scanPc = "done"
    /\ scanExclude = <<<<"t","e","m","p","*">>>>
    /\ fsName[1] = <<"T","E","M","P">>
    /\ ~fsGit[0] /\ ~fsGit[1] /\ fsGit[2] /\ fsGit[4]
    /\ HasRemoteOfOld(2)
    /\ skippedDirectories = 1
    /\ scanFound = <<4>>
    /\ PathsOf(matchedRepositories) = {4}

\* With the glob 'temp*' the directory mytemp was walked and the repository
\* in it found; with 'tmp.1' the directory tmpx1 was.
NotPrunedWitness ==
    /\ scanPc = "done"
    /\ \/ scanExclude = <<<<"t","e","m","p","*">>>> /\ fsName[1] = <<"m","y","t","e","m","p">>
       \/ scanExclude = <<<<"t","m","p",".","1">>>> /\ fsName[1] = <<"t","m","p","x","1">>
    /\ skippedDirectories = 0
    /\ scanFound = <<2, 4>>

\* With 'temp*' the directory temp-backup was pruned, and with 'T?MP' TEMP.
PrunedByGlobWitness ==
    /\ scanPc = "done"
    /\ \/ scanExclude = <<<<"t","e","m","p","*">>>> /\ fsName[1] = <<"t","e","m","p","-","b","a","c","k","u","p">>
       \/ scanExclude = <<<<"T","?","M","P">>>> /\ fsName[1] = <<"T","E","M","P">>
       \/ scanExclude = <<<<"o","l","d","*">>, <<"t","m","p",".","1">>>> /\ fsName[1] = <<"t","m","p",".","1">>
    /\ skippedDirectories = 1
    /\ 1 \notin scanListed

-----------------------------------------------------------------------------
(* Specification SpecDenylist: scans of trees whose entries bear names on, *)
(* containing, or unrelated to the denylist.                               *)

\* Names of entry 1: an entry of the denylist, names containing one, the
\* metadata folder's name, another hidden name, a plain name, and the first
\* segment of the denylist entry Library/Caches.
DenylistNames ==
    {<<"d","i","s","t">>, <<"m","y","d","i","s","t">>, <<"c","h","e","c","k","o","u","t">>, <<".","g","i","t">>, <<".","g","i","t","x">>, <<"a","p","p">>,
     <<"L","i","b","r","a","r","y">>}

\* Names of entry 2: those of InnerNames, and the second segment of the
\* denylist entry Library/Caches.
DenylistInnerNames == InnerNames \cup {<<"C","a","c","h","e","s">>}

InitDenylist ==
    /\ \E top \in DenylistNames : \E inner \in DenylistInnerNames :
          fsName = NamesOf(top, inner)
    /\ fsGit \in [DirNodes -> BOOLEAN]
    /\ fsUnlistable = {} /\ fsUnreadable = {}
    /\ fsRewritten = {}
    /\ scanOld = <<"a","l","i","c","e">>
    /\ scanNew = <<"c","a","r","o","l">>
    /\ scanMaxDepth = maxDepthOf([given |-> FALSE, value |-> 0])
    /\ scanExclude = <<>>
    /\ scanAborted = FALSE
    /\ scanAbortedAtCall = FALSE
    /\ scanOnProgress = FALSE
    /\ lastProgressUpdate = 0 /\ progressReports = <<>>
    /\ directRead = [kind |-> "none"]
    /\ genStack = <<[node |-> ScanRoot, depth |-> 0, pc |-> "enter", idx |-> 0]>>
    /\ scanEvent = NoEvent
    /\ scanPc = "iterating"
    /\ scanRepo = 0 /\ scanRemotes = <<>>
    /\ directoriesScanned = 0 /\ skippedDirectories = 0 /\ repositoriesFound = 0
    /\ matchedRepositories = <<>> /\ errors = <<>>
    /\ scanListed = {} /\ scanFound = <<>>
    /\ nowMs = ScanStartMs /\ loggers = <<>> /\ logDir = {}
    /\ CfgIdle /\ UrlIdle /\ MigIdle /\ AppIdle /\ DryIdle /\ MatchIdle

NextDenylist ==
    \/ GenEnter \/ GenStat \/ GenLoop
    \/ Consume \/ ReadRemotes \/ MatchRemotes \/ ScanReturn

SpecDenylist == InitDenylist /\ [][NextDenylist]_vars

-----------------------------------------------------------------------------
(* Claims about the denylist.                                              *)

\* Some stretch of the name is an entry of the denylist.
ContainsDenylistEntry(name) ==
    \E i \in 1..Len(IGNORE_PATTERNS) :
        \E a \in 1..(Len(name) - Len(IGNORE_PATTERNS[i]) + 1) :
            SubSeq(name, a, a + Len(IGNORE_PATTERNS[i]) - 1) = IGNORE_PATTERNS[i]

DotGit == <<".","g","i","t">>

\* The child directories whose name holds a denylist entry, and the hidden
\* ones other than .git.
Denylisted == {n \in ChildDirs : ContainsDenylistEntry(fsName[n])}
Hidden == {n \in ChildDirs : fsName[n][1] = "." /\ fsName[n] # DotGit}

\* C31: a child directory whose name equals or contains a denylist entry is
\* never entered, repository root or not, and nothing beneath it is listed,
\* found or matched; when the scan has returned, the children the walk came
\* to were pruned exactly when they are denylisted or hidden, each pruned
\* one was counted as skipped, and a child named .git was entered.
C31_DenylistIsContainment ==
    /\ OnStack \cap Denylisted = {}
    /\ WentInto \cap Denylisted = {}
    /\ \A m \in DirNodes :
          EnclosingOf[m] \cap Denylisted # {} =>
              /\ m \notin WentInto /\ m \notin OnStack
              /\ m \notin PathsOf(matchedRepositories)
    /\ \A n \in ChildDirs : fsName[n] = DotGit => n \notin Denylisted
    /\ scanPc = "done" =>
          /\ \A n \in Reached : n \notin WentInto <=> n \in Denylisted \cup Hidden
          /\ \A n \in Reached : fsName[n] = DotGit => n \in WentInto
          /\ skippedDirectories = Cardinality(Reached \cap (Denylisted \cup Hidden))

\* C31 witness: mydist, itself a repository with a remote of the old owner,
\* was pruned and counted as skipped; the repository next to it was found.
C31_Witness ==
    /\ scanPc = "done"
    /\ fsName[1] = <<"m","y","d","i","s","t">>
    /\ ~fsGit[0] /\ fsGit[1] /\ fsGit[4]
    /\ HasRemoteOfOld(1)
    /\ skippedDirectories = 1
    /\ scanFound = <<4>>

\* A directory named .git was walked and the repository beneath it found.
DotGitWalkedWitness ==
    /\ scanPc = "done"
    /\ fsName[1] = DotGit
    /\ 1 \in scanListed
    /\ scanFound = <<2, 4>>
    /\ skippedDirectories = 0

\* The path of a directory below the scan root, with "/" between the names.
RECURSIVE RelativePath(_)
RelativePath(n) ==
    IF ParentOf[n] = ScanRoot THEN fsName[n]
    ELSE RelativePath(ParentOf[n]) \o <<"/">> \o fsName[n]

\* The child directories whose path ends with a denylist entry of several
\* segments.
MultiSegmentDenylisted ==
    {n \in ChildDirs :
        \E i \in 1..Len(IGNORE_PATTERNS) :
            /\ \E k \in 1..Len(IGNORE_PATTERNS[i]) : IGNORE_PATTERNS[i][k] = "/"
            /\ \/ RelativePath(n) = IGNORE_PATTERNS[i]
               \/ endsWith(RelativePath(n), <<"/">> \o IGNORE_PATTERNS[i])}

\* C32: a directory whose path ends with a multi-segment denylist entry is
\* never entered by the walk, and no repository at or beneath it is found or
\* matched.
C32_MultiSegmentEntryPrunes ==
    \A m \in DirNodes :
        (EnclosingOf[m] \cup {m}) \cap MultiSegmentDenylisted # {} =>
            /\ m \notin WentInto /\ m \notin OnStack
            /\ m \notin PathsOf(matchedRepositories)

\* The directory Library/Caches was walked and counted as scanned, not as
\* skipped, and the repository beneath it was found.
MultiSegmentEntryWalkedWitness ==
    /\ scanPc = "done"
    /\ fsName[1] = <<"L","i","b","r","a","r","y">> /\ fsName[2] = <<"C","a","c","h","e","s">>
    /\ 2 \in MultiSegmentDenylisted
    /\ 2 \in scanListed
    /\ skippedDirectories = 0
    /\ scanFound = <<3, 4>>
    /\ repositoriesFound = 2

-----------------------------------------------------------------------------
(* Claims about the progress reports of migrate.                           *)

\* C33: the first report of migrate has completed = 0 and empty results;
\* after it come, for the k-th repository, a report before it (completed =
\* k - 1, currentRepository its path) and a report after it (completed = k);
\* in every report total is the length of the input and completed the number
\* of results in it, completed never decreases, and the last report's
\* completed is the number of repositories processed.
C33_ProgressReports ==
    migProgress # <<>> =>
        /\ migProgress[1] = [total |-> Len(migRepositories), completed |-> 0,
                             currentRepository |-> "", results |-> <<>>]
        /\ \A i \in 1..Len(migProgress) :
              /\ migProgress[i].total = Len(migRepositories)
              /\ migProgress[i].completed = Len(migProgress[i].results)
              /\ migProgress[i].results = SubSeq(results, 1, migProgress[i].completed)
              /\ i > 1 => migProgress[i].completed >= migProgress[i - 1].completed
        /\ \A k \in 1..Len(migRepositories) :
              /\ 2 * k <= Len(migProgress) =>
                    /\ migProgress[2 * k].completed = k - 1
                    /\ migProgress[2 * k].currentRepository = migRepositories[k].path
              /\ 2 * k + 1 <= Len(migProgress) =>
                    /\ migProgress[2 * k + 1].completed = k
                    /\ migProgress[2 * k + 1].currentRepository = ""
        /\ migProgress[Len(migProgress)].completed = completed
        /\ completed = Len(results)
        /\ Len(migProgress) = 1 + 2 * completed
                                + (IF migPc \in {"set", "logSuccess", "logFailure"}
                                     \/ (migPc = "rejected" /\ migRepo <= Len(migRepositories)
                                         /\ Len(migProgress) % 2 = 0)
                                   THEN 1 ELSE 0)

\* C33 witness: migrate returned after three repositories, the second of
\* which failed, and gave seven reports, the last with completed = 3.
C33_Witness ==
    /\ migPc = "returned"
    /\ Len(migRepositories) = 3
    /\ Len(migProgress) = 7
    /\ migProgress[7].completed = 3
    /\ migProgress[4].currentRepository = migRepositories[2].path
    /\ \E j \in 1..Len(results[2].results) : ~results[2].results[j].success

\* A cancelled migrate returned after one repository of three: three
\* reports, the last with completed = 1.
CancelledMigrateReportsWitness ==
    /\ migPc = "returned" /\ migAborted
    /\ Len(migRepositories) = 3
    /\ Len(migProgress) = 3
    /\ migProgress[3].completed = 1

-----------------------------------------------------------------------------
(* Claims about the counters of the audit logger.                          *)

\* The calls of logSuccess and of logFailure made so far: each call builds
\* one entry and appendEntry pushes it before it writes.
LogSuccessCalls == {i \in 1..Len(logEntries) : logEntries[i].success}
LogFailureCalls == {i \in 1..Len(logEntries) : ~logEntries[i].success}

\* C34: successfulMigrations is the number of logSuccess calls made,
\* failedMigrations the number of logFailure calls, and entries.length and
\* totalRepositories are both their sum; the footer finalize writes carries
\* these values.
C34_CountersMatchCalls ==
    /\ logSummary.successfulMigrations = Cardinality(LogSuccessCalls)
    /\ logSummary.failedMigrations = Cardinality(LogFailureCalls)
    /\ logSummary.totalRepositories = Len(logEntries)
    /\ \A i \in 1..Len(logFile) :
          IsBlock(logFile[i], "footer") => logFile[i].summary = logSummary

\* The counters match the calls as long as no write of the log file failed.
CountersMatchWithoutWriteFaults == logFaults = 0 => C34_CountersMatchCalls

\* A run without write faults that logged a success and a failure and was
\* finalized.
CountersMatchWitness ==
    /\ migPc = "returned" /\ logFaults = 0
    /\ logSummary.successfulMigrations >= 1
    /\ logSummary.failedMigrations >= 1
    /\ logSummary.totalRepositories = Len(logEntries)

\* A logSuccess call whose write failed left an entry and no count.
EntryWithoutCountWitness ==
    /\ migPc = "returned"
    /\ Len(logEntries) = 2
    /\ logEntries[1].success /\ ~logEntries[2].success
    /\ logSummary = [totalRepositories |-> 1, successfulMigrations |-> 0,
                     failedMigrations |-> 1]

-----------------------------------------------------------------------------
(* Specification SpecStale: migrate over repositories whose config may     *)
(* have changed since the scan that matched them.                          *)

\* The file system when migrate is called: each config is as the scan read
\* it, or has meanwhile lost the section of its first remote.
FsSince(status) ==
    [q \in MigPaths |->
        LET r == CHOOSE x \in MigPool : x.path = q
        IN  [exists |-> TRUE,
             text |-> IF status[q] = "stale" THEN createGitConfig(Tail(r.remotes))
                      ELSE createGitConfig(r.remotes)]]

InitStale ==
    /\ \E batch \in MigBatches : migOptions = OptionsObject(batch)
    /\ \E status \in [MigPaths -> {"same", "stale"}] : migFs = FsSince(status)
    /\ migReadOnly = {}
    /\ migAborted = FALSE
    /\ migAbortedAtCall = FALSE
    /\ migPc = "init"
    /\ migRepo = 0 /\ migRemote = 0
    /\ repoResults = <<>> /\ results = <<>> /\ completed = 0 /\ errorMessage = ""
    /\ logInitialized = FALSE /\ logEntries = <<>>
    /\ logSummary = [totalRepositories |-> 0, successfulMigrations |-> 0,
                     failedMigrations |-> 0]
    /\ logFile = <<>> /\ migProgress = <<>> /\ migAttempted = <<>> /\ logFaults = 0
    /\ CfgIdle /\ UrlIdle /\ ScanIdle /\ AppIdle /\ DryIdle /\ LgIdle /\ MatchIdle

SpecStale == InitStale /\ [][NextMigrate]_vars

-----------------------------------------------------------------------------
(* Claims about what a reported success or failure says of the config.     *)

\* The first URL a parse of the config at path gives the remote name, Null
\* when the parse reports no such remote.
RECURSIVE firstUrlOf(_, _)
firstUrlOf(remotes, name) ==
    IF remotes = <<>> THEN Null
    ELSE IF remotes[1].name = name THEN remotes[1].url
    ELSE firstUrlOf(Tail(remotes), name)

UrlOnDisk(path, name) == firstUrlOf(parseGitConfig(migFs[path].text), name)

\* C35: every entry reported with success = TRUE names a remote to which
\* the repository's config on disk, parsed, gives the entry's newUrl; this
\* holds from the moment the entry is pushed.
C35_SuccessMeansNewUrlOnDisk ==
    /\ \A i \in 1..Len(results) : \A j \in 1..Len(results[i].results) :
          results[i].results[j].success =>
              UrlOnDisk(results[i].repository.path, results[i].results[j].remoteName)
                  = results[i].results[j].newUrl
    /\ migPc \in {"set", "logSuccess", "logFailure"} =>
          \A j \in 1..Len(repoResults) :
              repoResults[j].success =>
                  UrlOnDisk(CurRepository.path, repoResults[j].remoteName)
                      = repoResults[j].newUrl

\* Every success reported for a config that is as the scan read it is on
\* disk.
SuccessOnDiskWhenConfigAsScanned ==
    \A i \in 1..Len(results) : \A j \in 1..Len(results[i].results) :
        LET path  == results[i].repository.path
            entry == results[i].results[j]
        IN  (entry.success
               /\ \E k \in 1..Len(parseGitConfig(migFs[path].text)) :
                     parseGitConfig(migFs[path].text)[k].name = entry.remoteName)
              => UrlOnDisk(path, entry.remoteName) = entry.newUrl

\* A returned run reported two successes for a repository whose config was
\* as scanned, and both new URLs are on disk.
SuccessOnDiskWitness ==
    /\ migPc = "returned"
    /\ Len(results) >= 1
    /\ Len(results[1].results) = 2
    /\ \A j \in 1..2 :
          /\ results[1].results[j].success
          /\ UrlOnDisk(results[1].repository.path, results[1].results[j].remoteName)
                = results[1].results[j].newUrl

\* A returned run reported success for a remote whose section had gone: the
\* config on disk has no such remote.
SuccessWithoutSectionWitness ==
    /\ migPc = "returned"
    /\ Len(results) >= 1
    /\ results[1].results[1].success
    /\ UrlOnDisk(results[1].repository.path, results[1].results[1].remoteName) = Null

\* C36: every entry reported with success = FALSE names a remote whose url
\* line the attempt did not rewrite: the config on disk still gives the
\* remote its old URL.
C36_FailureLeftConfigAlone ==
    /\ \A i \in 1..Len(results) : \A j \in 1..Len(results[i].results) :
          ~results[i].results[j].success =>
              UrlOnDisk(results[i].repository.path, results[i].results[j].remoteName)
                  = results[i].results[j].oldUrl
    /\ migPc \in {"set", "logSuccess", "logFailure"} =>
          \A j \in 1..Len(repoResults) :
              ~repoResults[j].success =>
                  UrlOnDisk(CurRepository.path, repoResults[j].remoteName)
                      = repoResults[j].oldUrl

\* As long as no write of the log file failed, a reported failure left the
\* config alone.
FailureLeftConfigAloneWithoutWriteFaults == logFaults = 0 => C36_FailureLeftConfigAlone

\* A returned run reported failures for a read-only config, which is as it
\* was.
FailureLeftConfigAloneWitness ==
    /\ migPc = "returned" /\ logFaults = 0
    /\ Len(results) >= 1
    /\ results[1].repository.path \in migReadOnly
    /\ ~results[1].results[1].success
    /\ ConfigUntouched(results[1].repository.path)

\* A returned run reported a failure for a remote whose new URL is on disk:
\* the config was written and the append to the log failed.
FailureAfterWriteWitness ==
    /\ migPc = "returned"
    /\ Len(results) >= 1
    /\ ~results[1].results[1].success
    /\ UrlOnDisk(results[1].repository.path, results[1].results[1].remoteName)
          = results[1].results[1].newUrl
    /\ ~logEntries[Len(logEntries)].success

-----------------------------------------------------------------------------
(* Specification SpecRace: scans during which another process rewrites the *)
(* config of the repository being read.                                    *)

InitRace ==
    /\ fsName = NamesOf(<<"a","p","p">>, <<"s","r","c">>)
    /\ fsGit \in [DirNodes -> BOOLEAN]
    /\ fsUnlistable = {} /\ fsUnreadable = {}
    /\ fsRewritten = {}
    /\ scanOld = <<"a","l","i","c","e">>
    /\ scanNew = <<"c","a","r","o","l">>
    /\ scanMaxDepth = maxDepthOf([given |-> FALSE, value |-> 0])
    /\ scanExclude = <<>>
    /\ scanAborted = FALSE
    /\ scanAbortedAtCall = FALSE
    /\ scanOnProgress = FALSE
    /\ lastProgressUpdate = 0 /\ progressReports = <<>>
    /\ directRead = [kind |-> "none"]
    /\ genStack = <<[node |-> ScanRoot, depth |-> 0, pc |-> "enter", idx |-> 0]>>
    /\ scanEvent = NoEvent
    /\ scanPc = "iterating"
    /\ scanRepo = 0 /\ scanRemotes = <<>>
    /\ directoriesScanned = 0 /\ skippedDirectories = 0 /\ repositoriesFound = 0
    /\ matchedRepositories = <<>> /\ errors = <<>>
    /\ scanListed = {} /\ scanFound = <<>>
    /\ nowMs = ScanStartMs /\ loggers = <<>> /\ logDir = {}
    /\ CfgIdle /\ UrlIdle /\ MigIdle /\ AppIdle /\ DryIdle /\ MatchIdle

\* Another process rewrites the config of the repository the scan is at,
\* before the scan's first read of it or between its two reads.
ConfigRewritten ==
    /\ scanPc \in {"remotes", "matching"}
    /\ scanRepo \notin fsRewritten
    /\ fsRewritten' = fsRewritten \cup {scanRepo}
    /\ UNCHANGED <<fsName, fsGit, fsUnlistable, fsUnreadable, scanArgs, scanAborted,
                   genStack, scanEvent, scanPc, scanRepo, scanRemotes, scanCounts,
                   scanListed, scanFound, progVars, directRead, notScanVars>>

NextRace ==
    \/ GenEnter \/ GenStat \/ GenLoop
    \/ Consume \/ ReadRemotes \/ MatchRemotes \/ ScanReturn
    \/ ConfigRewritten

SpecRace == InitRace /\ [][NextRace]_vars

-----------------------------------------------------------------------------
(* Claims about the two reads of a config.                                 *)

\* C37: in every repository pushed to matchedRepositories, the remote of
\* each matched remote is an entry of the repository's remotes list, with
\* the same name and URL.
C37_MatchedRemoteIsListed ==
    \A i \in 1..Len(matchedRepositories) :
        LET repository == matchedRepositories[i]
        IN  \A j \in 1..Len(repository.matchedRemotes) :
                \E k \in 1..Len(repository.remotes) :
                    repository.remotes[k] = repository.matchedRemotes[j].remote

\* A repository was pushed whose matched remote is the rewritten one while
\* its remotes list is the one read before the rewrite.
MatchedFromSecondReadWitness ==
    /\ scanPc = "done"
    /\ Len(matchedRepositories) >= 1
    /\ matchedRepositories[1].remotes = ParsedConfig[matchedRepositories[1].path]
    /\ matchedRepositories[1].matchedRemotes[1].remote = RewrittenConfig[1]

\* A repository rewritten before the first read was pushed with the
\* rewritten remote in both lists.
RewrittenBeforeReadsWitness ==
    /\ scanPc = "done"
    /\ Len(matchedRepositories) >= 1
    /\ matchedRepositories[1].remotes = RewrittenConfig
    /\ matchedRepositories[1].matchedRemotes[1].remote = RewrittenConfig[1]

-----------------------------------------------------------------------------
(* Claims relating the rewrite of a config to its parse.                   *)

\* The lines from which parseGitConfig takes a URL of the remote name.
ParsedLinesOf(lines, name) ==
    {i \in ParsedUrlLines(lines) : SectionOf(lines, i) = name}

\* C38: for a remote name N that parseGitConfig reports for the text, the
\* line updateRemoteInConfig(content, N, u) rewrites is the line from which
\* parseGitConfig took N's first URL, no other line changes, and the parse
\* of the result gives u as N's first URL.
C38_RewriteHitsParsedLine ==
    cfgPc = "rewritten" =>
        LET lines  == split(cfgText, "\n")
            out    == split(cfgOut, "\n")
            parsed == ParsedLinesOf(lines, cfgName)
            first  == CHOOSE i \in parsed : \A j \in parsed : i <= j
        IN  parsed # {} =>
                /\ Len(out) = Len(lines)
                /\ out[first] = SubSeq(lines[first], 1, LeadingWs(lines[first]))
                                    \o <<"u","r","l"," ","="," ">> \o cfgUrl
                /\ \A i \in 1..Len(lines) : i # first => out[i] = lines[i]
                /\ firstUrlOf(parseGitConfig(cfgOut), cfgName) = cfgUrl

\* The same, for texts in which parseGitConfig and updateRemoteInConfig read
\* the same lines of the remote's sections as url lines.
RewriteHitsParsedLineWhenReadAlike ==
    (cfgPc = "rewritten"
       /\ ParsedLinesOf(split(cfgText, "\n"), cfgName)
             = TargetLines(split(cfgText, "\n"), cfgName))
      => C38_RewriteHitsParsedLine

\* A text with two sections of the remote's name, one of them with two url
\* lines or with no blanks around "=", was rewritten in the line parsed
\* first.
RewriteHitsParsedLineWitness ==
    /\ cfgPc = "rewritten"
    /\ LET lines == split(cfgText, "\n")
       IN  /\ Cardinality(ParsedLinesOf(lines, cfgName)) >= 2
           /\ ParsedLinesOf(lines, cfgName) = TargetLines(lines, cfgName)
           /\ Cardinality({i \in 1..Len(lines) : HeaderName(lines[i]) = cfgName}) = 2
    /\ firstUrlOf(parseGitConfig(cfgOut), cfgName) = cfgUrl

\* A text with CRLF line ends whose remote is parsed came back unchanged.
CrlfNotRewrittenWitness ==
    /\ cfgPc = "rewritten"
    /\ ParsedLinesOf(split(cfgText, "\n"), cfgName) # {}
    /\ \E i \in 1..Len(cfgText) : cfgText[i] = "\r"
    /\ cfgOut = cfgText

\* The url line with a blank value, which parseGitConfig does not read, was
\* the one rewritten.
BlankValueRewrittenWitness ==
    /\ cfgPc = "rewritten"
    /\ LET lines == split(cfgText, "\n")
           out   == split(cfgOut, "\n")
       IN  \E i \in 1..Len(lines) :
              /\ out[i] # lines[i]
              /\ i \notin ParsedLinesOf(lines, cfgName)
              /\ ParsedLinesOf(lines, cfgName) # {}

-----------------------------------------------------------------------------
(* Specification SpecLive: scans whose own steps are always taken in the   *)
(* end, with failing directories and configs and cancellation at any time. *)

InitLive ==
    /\ fsName = NamesOf(<<"a","p","p">>, <<"s","r","c">>)
    /\ fsGit \in [DirNodes -> BOOLEAN]
    /\ \E plan \in FaultPlans :
          fsUnlistable = plan.list /\ fsUnreadable = plan.config
    /\ fsRewritten = {}
    /\ scanOld = <<"a","l","i","c","e">>
    /\ scanNew = <<"c","a","r","o","l">>
    /\ \E option \in MaxDepthOptions : scanMaxDepth = maxDepthOf(option)
    /\ scanExclude = <<>>
    /\ scanAborted = FALSE
    /\ scanAbortedAtCall = FALSE
    /\ scanOnProgress = FALSE
    /\ lastProgressUpdate = 0 /\ progressReports = <<>>
    /\ directRead = [kind |-> "none"]
    /\ genStack = <<[node |-> ScanRoot, depth |-> 0, pc |-> "enter", idx |-> 0]>>
    /\ scanEvent = NoEvent
    /\ scanPc = "iterating"
    /\ scanRepo = 0 /\ scanRemotes = <<>>
    /\ directoriesScanned = 0 /\ skippedDirectories = 0 /\ repositoriesFound = 0
    /\ matchedRepositories = <<>> /\ errors = <<>>
    /\ scanListed = {} /\ scanFound = <<>>
    /\ nowMs = ScanStartMs /\ loggers = <<>> /\ logDir = {}
    /\ CfgIdle /\ UrlIdle /\ MigIdle /\ AppIdle /\ DryIdle /\ MatchIdle

\* The steps of the walk and of the loop that consumes it: each runs to its
\* next await, and the awaits on stat and readdir settle.
WalkStep == GenEnter \/ GenStat \/ GenLoop \/ Consume \/ ScanReturn

\* The two reads of a repository's config.
ReadStep == ReadRemotes \/ MatchRemotes

NextLive == WalkStep \/ ReadStep \/ AbortScan

\* The awaits on the reads of a config settle, into the try or its catch: the
\* scan does not stay in one for ever.  (Weak fairness of ReadStep, which is
\* enabled exactly while scanPc is "remotes" or "matching".)
ReadsSettle == []<>(scanPc \notin {"remotes", "matching"})

SpecLive == InitLive /\ [][NextLive]_vars /\ WF_vars(WalkStep) /\ ReadsSettle

-----------------------------------------------------------------------------
(* Claims about termination of the walk.                                   *)

\* The directories scanDirectory has been called on and has passed its early
\* returns for: those on the stack past that point, those listed, and those
\* reported as repositories.
Visited ==
    Entered \cup scanListed \cup {scanFound[i] : i \in 1..Len(scanFound)}
        \cup (IF scanEvent.type = "repo" THEN {scanEvent.path} ELSE {})

\* A step in which scanDirectory passes its early returns and yields 'dir'.
EntersDirectory ==
    /\ genStack # <<>> /\ TopFrame.pc = "enter"
    /\ scanEvent = NoEvent /\ scanEvent' = [type |-> "dir"]

\* No directory is on the stack of scanDirectory calls twice.
NoDirectoryTwiceOnStack ==
    \A i, j \in 1..Len(genStack) : i # j => genStack[i].node # genStack[j].node

\* C39: every scan returns a result in the end, and scanDirectory never goes
\* into a directory it has gone into before: the entries that are not
\* directories, symbolic links included, are passed over.
C39_ScanTerminatesWithoutRevisits ==
    /\ <>(scanPc = "done")
    /\ [](NoDirectoryTwiceOnStack)
    /\ [][EntersDirectory => TopFrame.node \notin Visited]_vars

\* C39 witness: a scan over the whole tree, three levels deep, has returned
\* after it counted each of the five directories once and passed over the
\* entry that is no directory.
C39_Witness ==
    /\ scanPc = "done" /\ ~scanAborted
    /\ fsGit = [n \in DirNodes |-> n \in {3, 4}]
    /\ scanMaxDepth >= 3
    /\ fsUnlistable = {} /\ fsUnreadable = {}
    /\ scanListed = {0, 1, 2}
    /\ scanFound = <<3, 4>>
    /\ directoriesScanned = 5
    /\ skippedDirectories = 0

\* A cancelled scan has returned with part of the tree unvisited.
CancelledScanReturnsWitness ==
    /\ scanPc = "done" /\ scanAborted
    /\ ~fsGit[0]
    /\ directoriesScanned = 1
    /\ scanListed = {0}

-----------------------------------------------------------------------------
(* Claims about the review list.                                           *)

\* C40: while the list of repositories is reviewed, the scroll offset lies
\* in 0 .. max(0, repositories.length - PAGE_SIZE) after every key press.
C40_ScrollOffsetInRange ==
    phase = "review" =>
        /\ scrollOffset >= 0
        /\ scrollOffset <= Max(0, Len(matchedRepos) - PAGE_SIZE)

\* Without the down arrow the offset of a list shorter than a page stays 0.
ScrollOffsetInRangeWithoutDownArrow ==
    [][(phase = "review" /\ C40_ScrollOffsetInRange /\ phase' = "review"
          /\ scrollOffset' # Len(matchedRepos) - PAGE_SIZE)
        => C40_ScrollOffsetInRange']_vars

\* The down arrow on a list of three repositories left the offset at -7.
NegativeScrollOffsetWitness ==
    /\ phase = "review"
    /\ Len(matchedRepos) = 3
    /\ scrollOffset = 3 - PAGE_SIZE
=============================================================================
